---- MODULE Spec2Model ----
(***************************************************************************)
(* A model of the quantitative analysis engine of src/ai_analyzer/quant.py *)
(* (class QuantAnalyzer): technical indicators, performance metrics and    *)
(* the two rule-based strategy backtests.                                  *)
(*                                                                         *)
(* Numbers.  Python floats are modelled as exact rationals <<n, d>> with   *)
(* d > 0 in lowest terms, so 0 is <<0, 1>> and equality of values is       *)
(* equality of pairs.  Values that need a square root are kept exact as    *)
(* c * sqrt(q) (see Surd).  Float rounding error is modelled only where    *)
(* calculate_kdj computes J (see TripleSide).                              *)
(*                                                                         *)
(* Outcomes.  A call ends with ret = [kind |-> "value", ...], with         *)
(* [kind |-> "none"] (Python None) or with [kind |-> "raised", exc |-> e]  *)
(* when an exception leaves the method.                                    *)
(*                                                                         *)
(* The coroutines of src/image_generator.py that share one lazily created  *)
(* LocalImageGenerator are modelled beside it (see RenderFundImage).       *)
(***************************************************************************)
EXTENDS Integers, Sequences, FiniteSets, TLC

VARIABLES
    call,           \* the public method invoked and its arguments
    history_data,   \* the list[dict] argument, a sequence of records
    pc,             \* position of the (single-threaded) execution
    frame,          \* the backtest currently executing: its name and periods
    stage,          \* run_all_backtests: which of its three calls is next
    results,        \* run_all_backtests: the local list `results`
    i,              \* loop index of the backtest scan
    position,       \* 0: flat, 1: long
    entry_price,    \* price recorded at the last buy
    trades,         \* realised profits, one per sell
    signals,        \* every signal generated by the scan so far
    ret,            \* outcome of the outermost call once pc = "done"
    returned,       \* the earlier calls on the same list, with their outcomes
    _generator,     \* image_generator.py: the module global, None or an instance
    instances,      \* the LocalImageGenerator objects created, by identity
    tasks,          \* the render_fund_image coroutines: position and locals
    playwrights,    \* Playwright drivers started so far
    browsers        \* browsers launched so far

quantVars == <<call, history_data, pc, frame, stage, results, i, position,
               entry_price, trades, signals, ret, returned>>

renderVars == <<_generator, instances, tasks, playwrights, browsers>>

vars == <<quantVars, renderVars>>

----
\* Program constants (literals of quant.py).

MIN_HISTORY == 5
BACKTEST_MARGIN == 10
MA1_FAST == 5
MA1_SLOW == 20
MA2_FAST == 10
MA2_SLOW == 30
RSI_PERIOD == 14
OVERSOLD == 30
OVERBOUGHT == 70
KEEP_SIGNALS == 5
TRADING_DAYS == 252

----
\* Bounds of the model.

\* closes of the generated series are drawn from 0..MaxClose
MaxClose == 2
\* longest repeating pattern a generated series is built from
MaxPat == 3
\* series for the small-period backtests have up to SmallSlow + 10 + MaxExtra points
MaxExtra == 1
\* series for run_all_backtests have up to MA2_SLOW + 10 + MaxOver points
MaxOver == 1
\* longest period of a directly called backtest
MaxPeriod == 3
\* series for the indicator and performance engines have up to 5 + MaxMore points
MaxMore == 5

----
\* Exact rational arithmetic.

Abs(x) == IF x < 0 THEN -x ELSE x

RECURSIVE GCD(_, _)
GCD(a, b) == IF b = 0 THEN a ELSE GCD(b, a % b)

\* n / d in lowest terms, d # 0
Rat(n, d) ==
    LET g == GCD(Abs(n), Abs(d))
        s == IF d < 0 THEN -1 ELSE 1
    IN  <<(s * n) \div g, (s * d) \div g>>

Zero == <<0, 1>>
FromInt(n) == <<n, 1>>
\* sums over the least common denominator and products after cross-cancelling
\* keep the intermediate integers small
RAdd(a, b) ==
    LET g == GCD(a[2], b[2])
    IN  Rat(a[1] * (b[2] \div g) + b[1] * (a[2] \div g), (a[2] \div g) * b[2])
RNeg(a) == <<-a[1], a[2]>>
RSub(a, b) == RAdd(a, RNeg(b))
RMul(a, b) ==
    LET g1 == GCD(Abs(a[1]), b[2])
        g2 == GCD(Abs(b[1]), a[2])
    IN  Rat((a[1] \div g1) * (b[1] \div g2), (a[2] \div g2) * (b[2] \div g1))
\* b # 0
RDiv(a, b) == RMul(a, IF b[1] < 0 THEN <<-b[2], -b[1]>> ELSE <<b[2], b[1]>>)
\* a < b and a <= b by the sign of a - b
RLt(a, b) == RSub(a, b)[1] < 0
RLe(a, b) == RSub(a, b)[1] <= 0
RAbs(a) == <<Abs(a[1]), a[2]>>
IsZero(a) == a[1] = 0

\* sum, min and max of s[lo..hi], lo <= hi, by halves
RECURSIVE RSumOver(_, _, _)
RSumOver(s, lo, hi) ==
    IF lo = hi THEN s[lo]
    ELSE RAdd(RSumOver(s, lo, (lo + hi) \div 2),
              RSumOver(s, (lo + hi) \div 2 + 1, hi))
RSum(s) == IF Len(s) = 0 THEN Zero ELSE RSumOver(s, 1, Len(s))

RLeast(a, b) == IF RLt(b, a) THEN b ELSE a
RMost(a, b) == IF RLt(a, b) THEN b ELSE a

RECURSIVE RMinOver(_, _, _)
RMinOver(s, lo, hi) ==
    IF lo = hi THEN s[lo]
    ELSE RLeast(RMinOver(s, lo, (lo + hi) \div 2),
                RMinOver(s, (lo + hi) \div 2 + 1, hi))
\* s is not empty
RMin(s) == RMinOver(s, 1, Len(s))

RECURSIVE RMaxOver(_, _, _)
RMaxOver(s, lo, hi) ==
    IF lo = hi THEN s[lo]
    ELSE RMost(RMaxOver(s, lo, (lo + hi) \div 2),
               RMaxOver(s, (lo + hi) \div 2 + 1, hi))
RMax(s) == RMaxOver(s, 1, Len(s))

\* round(x, places): the nearest multiple of 10^-places, ties to even
Pow10(k) == IF k = 2 THEN 100 ELSE IF k = 4 THEN 10000 ELSE 1
Round(x, places) ==
    LET num == x[1] * Pow10(places)
        fl == num \div x[2]
        rem2 == 2 * (num - fl * x[2])
        h == IF rem2 > x[2] THEN fl + 1
             ELSE IF rem2 < x[2] THEN fl
             ELSE IF fl % 2 = 0 THEN fl ELSE fl + 1
    IN  Rat(h, Pow10(places))

\* c * sqrt(q) with c, q rational and q >= 0: the exact value of a formula
\* that uses math.sqrt.  Zero is always <<"sqrt", Zero, Zero>>.
Surd(c, q) ==
    IF IsZero(c) \/ IsZero(q) THEN <<"sqrt", Zero, Zero>> ELSE <<"sqrt", c, q>>
SurdZero == Surd(Zero, Zero)
SurdIsZero(x) == IsZero(x[2])
SurdIsPos(x) == x[2][1] > 0
Sign(a) == IF a[1] > 0 THEN 1 ELSE IF a[1] < 0 THEN -1 ELSE 0

----
\* Records of the input series.  A field of a record is a tagged value:
\* a number, None (or any non-numeric value), or a key the dict lacks.
\* An optional result (float | None) is a value or None == <<>>.

None == <<>>

Num(v) == [t |-> "num", v |-> v]
NoneVal == [t |-> "none", v |-> 0]
Missing == [t |-> "missing", v |-> 0]
IsNum(x) == x.t = "num"

\* a well-formed record: numeric close, no high/low keys
Point(c) == [close |-> Num(c), high |-> Missing, low |-> Missing]

Range(s) == {s[k] : k \in DOMAIN s}

\* Python slice s[a:b] for 0 <= a, b <= len(s), 0-based, empty when a >= b
Slice(s, a, b) == IF a >= b THEN <<>> ELSE SubSeq(s, a + 1, b)
\* s[-n:] for n >= 1
\* the first n elements in place of the last
FirstN(s, n) == IF n >= Len(s) THEN s ELSE SubSeq(s, 1, n)

LastN(s, n) == IF n >= Len(s) THEN s ELSE SubSeq(s, Len(s) - n + 1, Len(s))
\* s[k] with a 0-based index
At(s, k) == s[k + 1]

RECURSIVE SumOver(_, _, _)
SumOver(s, lo, hi) ==
    IF lo = hi THEN s[lo]
    ELSE SumOver(s, lo, (lo + hi) \div 2) + SumOver(s, (lo + hi) \div 2 + 1, hi)
Sum(s) == IF Len(s) = 0 THEN 0 ELSE SumOver(s, 1, Len(s))

\* closes = [d["close"] for d in history_data] (396, 516, 619): the raw
\* values; d["close"] raises KeyError when a record lacks the key
RawCloses(h) == [k \in DOMAIN h |-> h[k].close]
HasClose(h) == \A k \in DOMAIN h : h[k].close.t # "missing"
AllNum(s) == \A k \in DOMAIN s : IsNum(s[k])
Vals(s) == [k \in DOMAIN s |-> s[k].v]
Floats(s) == [k \in DOMAIN s |-> FromInt(s[k])]

----
\* Outcomes of a call.

Value(v) == [kind |-> "value", value |-> v]
NoResult == [kind |-> "none"]
Raised(e) == [kind |-> "raised", exc |-> e]
Pending == [kind |-> "pending"]

----
\* _std (quant.py 126-133): the sample variance; the standard deviation is
\* its square root and is 0 for fewer than two values.

Variance(data) ==
    IF Len(data) < 2 THEN Zero
    ELSE LET mean == RDiv(RSum(data), FromInt(Len(data)))
             sq == [k \in DOMAIN data |->
                       RMul(RSub(data[k], mean), RSub(data[k], mean))]
         IN  RDiv(RSum(sq), FromInt(Len(data) - 1))

Std(data) == Surd(FromInt(1), Variance(data))

----
\* calculate_rsi (quant.py 135-150) on a list of rationals.

Max0(c) == IF RLt(Zero, c) THEN c ELSE Zero
AbsMin0(c) == IF RLt(c, Zero) THEN RAbs(c) ELSE Zero

calculate_rsi(prices, period) ==
    IF Len(prices) < period + 1 THEN None
    ELSE LET changes == [k \in 1..(Len(prices) - 1) |->
                            RSub(prices[k + 1], prices[k])]
             recent == LastN(changes, period)
             gains == [k \in DOMAIN recent |-> Max0(recent[k])]
             losses == [k \in DOMAIN recent |-> AbsMin0(recent[k])]
             avg_gain == RDiv(RSum(gains), FromInt(period))
             avg_loss == RDiv(RSum(losses), FromInt(period))
         IN  IF IsZero(avg_loss) THEN FromInt(100)
             ELSE LET rs == RDiv(avg_gain, avg_loss)
                  IN  RSub(FromInt(100), RDiv(FromInt(100), RAdd(FromInt(1), rs)))

----
\* Moving averages (quant.py 108-124) on a list of rationals.

Truthy(x) == x # None /\ ~IsZero(x)

\* the sum of the whole list in place of the last period values
_sma_unsliced(data, period) ==
    IF Len(data) < period THEN None
    ELSE RDiv(RSum(data), FromInt(period))

\* the average of the points there are, when fewer than the period
_sma_partial(data, period) ==
    IF data = <<>> THEN None
    ELSE RDiv(RSum(LastN(data, period)), FromInt(Len(LastN(data, period))))

_sma(data, period) ==
    IF Len(data) < period THEN None
    ELSE RDiv(RSum(LastN(data, period)), FromInt(period))

\* w, with v evaluated first: TLC evaluates the argument of an operator where
\* it is used, so a fold that passes its accumulator on unevaluated nests
\* the evaluation as deep as the list is long
Strict(v, w) == IF v = v THEN w ELSE w

\* the loop of lines 122-123
RECURSIVE EmaFold(_, _, _)
EmaFold(ema, rest, multiplier) ==
    IF rest = <<>> THEN ema
    ELSE LET next == RAdd(RMul(RSub(rest[1], ema), multiplier), ema)
         IN  Strict(next, EmaFold(next, Tail(rest), multiplier))

_ema(data, period) ==
    IF Len(data) < period THEN None
    ELSE EmaFold(RDiv(RSum(Slice(data, 0, period)), FromInt(period)),
                 Slice(data, period, Len(data)), Rat(2, period + 1))

----
\* calculate_macd (quant.py 152-181); the result is <<macd, signal, hist>>.

MACD_FAST == 12
MACD_SLOW == 26
MACD_SIGNAL == 9

\* the loop of lines 168-173: the candidates of every prefix, those with both
\* averages truthy kept
BothTruthy(pair) == Truthy(pair[1]) /\ Truthy(pair[2])

MacdHistory(prices, fast, slow) ==
    LET pairs == [k \in 1..(Len(prices) - slow + 1) |->
                     <<_ema(Slice(prices, 0, slow + k - 1), fast),
                       _ema(Slice(prices, 0, slow + k - 1), slow)>>]
        kept == SelectSeq(pairs, BothTruthy)
    IN  [k \in DOMAIN kept |-> RSub(kept[k][1], kept[k][2])]

calculate_macd(prices, fast, slow, signal) ==
    IF Len(prices) < slow + signal THEN <<None, None, None>>
    ELSE LET ema_fast == _ema(prices, fast)
             ema_slow == _ema(prices, slow)
         IN  IF ema_fast = None \/ ema_slow = None THEN <<None, None, None>>
             ELSE LET macd_line == RSub(ema_fast, ema_slow)
                      macd_history == MacdHistory(prices, fast, slow)
                  IN  IF Len(macd_history) < signal THEN <<macd_line, None, None>>
                      ELSE LET signal_line == _sma(macd_history, signal)
                           IN  <<macd_line, signal_line,
                                 IF Truthy(signal_line)
                                 THEN RSub(macd_line, signal_line) ELSE None>>

----
\* calculate_bollinger (quant.py 183-199).  A band is middle + c * std, kept
\* exact as <<"band", middle, c, variance>>; the result is <<upper, middle,
\* lower>>.

BOLL_PERIOD == 20
BOLL_STD_DEV == 2

Band(middle, c, var) == <<"band", middle, IF IsZero(var) THEN 0 ELSE c, var>>
\* middle + c * sqrt(var) = 0
BandIsZero(b) ==
    IF b[3] = 0 THEN IsZero(b[2])
    ELSE /\ Sign(b[2]) = -b[3] \div Abs(b[3])
         /\ RMul(b[2], b[2]) = RMul(FromInt(b[3] * b[3]), b[4])

calculate_bollinger(prices, period, std_dev) ==
    IF Len(prices) < period THEN <<None, None, None>>
    ELSE LET middle == _sma(prices, period)
             var == Variance(LastN(prices, period))
         IN  IF middle = None THEN <<None, None, None>>
             ELSE <<Band(middle, std_dev, var), middle, Band(middle, -std_dev, var)>>

\* (upper - lower) / middle * 100 if middle else None (294)
BollWidth(upper, middle, lower) ==
    IF Truthy(middle)
    THEN Surd(RDiv(FromInt((upper[3] - lower[3]) * 100), middle), upper[4])
    ELSE None

----
\* calculate_kdj (quant.py 201-226); the result is <<k, d, j>>.
\*
\* The prices are floats.  Everywhere else the model computes with the exact
\* rationals the floats approximate; here the rounding of `3 * k` (line 225)
\* is computed as binary64 does it, because it decides whether j is k.
\* A mantissa is a sequence of limbs, most significant first.

KDJ_PERIOD == 9

Limb == 1024
LimbBits == 10
MantissaBits == 53

RECURSIVE BitLen(_)
BitLen(n) == IF n = 0 THEN 0 ELSE 1 + BitLen(n \div 2)

Bits(x) == (Len(x) - 1) * LimbBits + BitLen(x[1])

RECURSIVE Carry(_, _, _)
Carry(x, k, c) ==
    IF k = 1 THEN [x EXCEPT ![1] = x[1] + c]
    ELSE LET v == x[k] + c
         IN  Carry([x EXCEPT ![k] = v % Limb], k - 1, v \div Limb)

Times(x, m) == Carry([k \in DOMAIN x |-> x[k] * m], Len(x), 0)

\* the side to which round-to-nearest-even moves x when it keeps
\* MantissaBits significant bits: 1 up, -1 down, 0 when x is kept
RoundingSide(x) ==
    LET drop == Bits(x) - MantissaBits
        last == x[Len(x)]
        low == last % (2 ^ drop)
        odd == (last \div (2 ^ drop)) % 2
    IN  IF low = 0 THEN 0
        ELSE IF 2 * low > 2 ^ drop \/ (2 * low = 2 ^ drop /\ odd = 1) THEN 1
        ELSE -1

RoundedMantissa(x) ==
    LET drop == Bits(x) - MantissaBits
        last == x[Len(x)]
        low == last % (2 ^ drop)
    IN  Carry([x EXCEPT ![Len(x)] = last - low], Len(x),
              IF RoundingSide(x) = 1 THEN 2 ^ drop ELSE 0)

\* a / b scaled by powers of two into [1, 2)
RECURSIVE Scaled(_, _)
Scaled(a, b) ==
    IF a < b THEN Scaled(2 * a, b)
    ELSE IF a >= 2 * b THEN Scaled(a, 2 * b)
    ELSE <<a, b>>

RECURSIVE LongDiv(_, _, _, _)
LongDiv(cur, b, n, acc) ==
    IF n = 0 THEN <<Append(acc, cur \div b), cur % b>>
    ELSE LongDiv((cur % b) * Limb, b, n - 1, Append(acc, cur \div b))

\* the mantissa of the float a / b, for whole a, b > 0
QuotientMantissa(a, b) ==
    LET s == Scaled(a, b)
        qr == LongDiv(4 * s[1], s[2], 5, <<>>)
        q == qr[1]
        r == qr[2]
        up == 2 * r > s[2] \/ (2 * r = s[2] /\ q[Len(q)] % 2 = 1)
    IN  Carry(q, Len(q), IF up THEN 1 ELSE 0)

\* `(a / b) * 100`, then `3 * k`: the side of 3k on which the float product
\* lies.  100 is 25 * 4 and a factor 4 leaves the mantissa alone.
TripleSide(a, b) ==
    IF a = 0 THEN 0
    ELSE LET side == RoundingSide(Times(RoundedMantissa(
                         Times(QuotientMantissa(Abs(a), b), 25)), 3))
         IN  IF a < 0 THEN -side ELSE side

\* <<"float", x, side>> is the float next to the exact value x on the given
\* side (x itself when side is 0)
Float(x, side) == <<"float", x, side>>
FloatGt(f, c) == RLt(c, f[2]) \/ (f[2] = c /\ f[3] > 0)
FloatLt(f, c) == RLt(f[2], c) \/ (f[2] = c /\ f[3] < 0)

\* the window taken from the front of the series
calculate_kdj_front(highs, lows, closes, period) ==
    IF Len(closes) < period THEN <<None, None, None>>
    ELSE LET highest == RMax(FirstN(highs, period))
             lowest == RMin(FirstN(lows, period))
             above == RSub(closes[Len(closes)], lowest)
             range == RSub(highest, lowest)
             rsv == IF highest = lowest THEN FromInt(50)
                    ELSE RMul(RDiv(above, range), FromInt(100))
             k == rsv
             d == k
             j == Float(RSub(RMul(FromInt(3), k), RMul(FromInt(2), d)),
                        IF highest = lowest THEN 0
                        ELSE TripleSide(above[1], range[1]))
         IN  <<k, d, j>>

calculate_kdj(highs, lows, closes, period) ==
    IF Len(closes) < period THEN <<None, None, None>>
    ELSE LET highest == RMax(LastN(highs, period))
             lowest == RMin(LastN(lows, period))
             above == RSub(closes[Len(closes)], lowest)
             range == RSub(highest, lowest)
             rsv == IF highest = lowest THEN FromInt(50)
                    ELSE RMul(RDiv(above, range), FromInt(100))
             k == rsv
             d == k
             \* 3 * k - 2 * d: 2 * d and the difference are exact
             j == Float(RSub(RMul(FromInt(3), k), RMul(FromInt(2), d)),
                        IF highest = lowest THEN 0
                        ELSE TripleSide(above[1], range[1]))
         IN  <<k, d, j>>

----
\* calculate_atr (quant.py 228-248).

ATR_PERIOD == 14

TrueRange(highs, lows, closes, k) ==
    RMax(<<RSub(highs[k], lows[k]), RAbs(RSub(highs[k], closes[k - 1])),
           RAbs(RSub(lows[k], closes[k - 1]))>>)

calculate_atr(highs, lows, closes, period) ==
    IF Len(closes) < period + 1 THEN None
    ELSE LET trs == [k \in 1..(Len(closes) - 1) |->
                        TrueRange(highs, lows, closes, k + 1)]
         IN  RDiv(RSum(LastN(trs, period)), FromInt(period))

----
\* calculate_all_indicators and _calculate_signal (quant.py 250-383).
\* The five signal strings of lines 372-381 are named in English.

\* not history_data or len(history_data) < 5 (254, 393)
TooShort(h) == h = <<>> \/ Len(h) < MIN_HISTORY

\* TechnicalIndicators() with ma5 defaulting to 0.0 in place of None
DefaultIndicatorsZeroMa ==
    [ma5 |-> Zero, ma10 |-> None, ma20 |-> None, ma60 |-> None,
     ema12 |-> None, ema26 |-> None,
     macd |-> None, macd_signal |-> None, macd_hist |-> None,
     rsi_6 |-> None, rsi_14 |-> None,
     boll_upper |-> None, boll_middle |-> None, boll_lower |-> None,
     boll_width |-> None,
     kdj_k |-> None, kdj_d |-> None, kdj_j |-> None,
     atr |-> None, obv_trend |-> None,
     trend_score |-> 0, signal |-> "hold"]

\* TechnicalIndicators() (54-92, 252)
DefaultIndicators ==
    [ma5 |-> None, ma10 |-> None, ma20 |-> None, ma60 |-> None,
     ema12 |-> None, ema26 |-> None,
     macd |-> None, macd_signal |-> None, macd_hist |-> None,
     rsi_6 |-> None, rsi_14 |-> None,
     boll_upper |-> None, boll_middle |-> None, boll_lower |-> None,
     boll_width |-> None,
     kdj_k |-> None, kdj_d |-> None, kdj_j |-> None,
     atr |-> None, obv_trend |-> None,
     trend_score |-> 0, signal |-> "hold"]

\* safe_float (258-264)
safe_float(x) == IF IsNum(x) THEN FromInt(x.v) ELSE Zero
\* safe_float(d.get(key, default)) (266-268)
SafeGet(x, default) == IF x.t = "missing" THEN default ELSE safe_float(x)

\* a > b > c ... as Python chains comparisons
Gt(a, b) == RLt(b, a)

\* the full orderings worth 40 points
MaOrderingForty(price, ind) ==
    IF Gt(price, ind.ma5) /\ Gt(ind.ma5, ind.ma10) /\ Gt(ind.ma10, ind.ma20)
    THEN 40
    ELSE IF Gt(price, ind.ma5) /\ Gt(ind.ma5, ind.ma10) THEN 20
    ELSE IF Gt(price, ind.ma5) THEN 10
    ELSE IF RLt(price, ind.ma5) /\ RLt(ind.ma5, ind.ma10)
            /\ RLt(ind.ma10, ind.ma20)
    THEN -40
    ELSE IF RLt(price, ind.ma5) /\ RLt(ind.ma5, ind.ma10) THEN -20
    ELSE IF RLt(price, ind.ma5) THEN -10
    ELSE 0

\* the points of the moving-average ordering (320-331)
MaOrdering(price, ind) ==
    IF Gt(price, ind.ma5) /\ Gt(ind.ma5, ind.ma10) /\ Gt(ind.ma10, ind.ma20)
    THEN 30
    ELSE IF Gt(price, ind.ma5) /\ Gt(ind.ma5, ind.ma10) THEN 20
    ELSE IF Gt(price, ind.ma5) THEN 10
    ELSE IF RLt(price, ind.ma5) /\ RLt(ind.ma5, ind.ma10)
            /\ RLt(ind.ma10, ind.ma20)
    THEN -30
    ELSE IF RLt(price, ind.ma5) /\ RLt(ind.ma5, ind.ma10) THEN -20
    ELSE IF RLt(price, ind.ma5) THEN -10
    ELSE 0

MaScore(price, ind) ==
    IF Truthy(ind.ma5) /\ Truthy(ind.ma10) /\ Truthy(ind.ma20)
    THEN MaOrdering(price, ind)
    ELSE 0

MacdScore(ind) ==
    IF ind.macd_hist # None
    THEN (IF Gt(ind.macd_hist, Zero)
          THEN (IF Gt(ind.macd_hist, Rat(1, 100)) THEN 15 ELSE 10)
          ELSE -(IF RLt(ind.macd_hist, Rat(-1, 100)) THEN 15 ELSE 10))
         + (IF Truthy(ind.macd) /\ Truthy(ind.macd_signal)
            THEN (IF Gt(ind.macd, ind.macd_signal) THEN 10 ELSE -10)
            ELSE 0)
    ELSE 0

\* the overbought and oversold points with their signs exchanged
RsiScoreSignsExchanged(ind) ==
    IF Truthy(ind.rsi_14)
    THEN IF Gt(ind.rsi_14, FromInt(70)) THEN 25
         ELSE IF Gt(ind.rsi_14, FromInt(60)) THEN 10
         ELSE IF RLt(ind.rsi_14, FromInt(30)) THEN -25
         ELSE IF RLt(ind.rsi_14, FromInt(40)) THEN -10
         ELSE 0
    ELSE 0

RsiScore(ind) ==
    IF Truthy(ind.rsi_14)
    THEN IF Gt(ind.rsi_14, FromInt(70)) THEN -25
         ELSE IF Gt(ind.rsi_14, FromInt(60)) THEN -10
         ELSE IF RLt(ind.rsi_14, FromInt(30)) THEN 25
         ELSE IF RLt(ind.rsi_14, FromInt(40)) THEN 10
         ELSE 0
    ELSE 0

KdjScore(ind) ==
    IF ind.kdj_j # None
    THEN IF FloatGt(ind.kdj_j, FromInt(100)) THEN -20
         ELSE IF FloatGt(ind.kdj_j, FromInt(80)) THEN -10
         ELSE IF FloatLt(ind.kdj_j, Zero) THEN 20
         ELSE IF FloatLt(ind.kdj_j, FromInt(20)) THEN 10
         ELSE 0
    ELSE 0

\* the score kept on a scale of a thousand
ClampPermille(score) ==
    LET low == IF score * 10 < 1000 THEN score * 10 ELSE 1000
    IN  IF low > -1000 THEN low ELSE -1000

Clamp(score) ==
    LET low == IF score < 100 THEN score ELSE 100
    IN  IF low > -100 THEN low ELSE -100

\* the thresholds compared strictly
SignalOfStrict(score) ==
    IF score > 60 THEN "strong_buy"
    ELSE IF score > 30 THEN "buy"
    ELSE IF score > -30 THEN "hold"
    ELSE IF score > -60 THEN "sell"
    ELSE "strong_sell"

SignalOf(score) ==
    IF score >= 60 THEN "strong_buy"
    ELSE IF score >= 30 THEN "buy"
    ELSE IF score >= -30 THEN "hold"
    ELSE IF score >= -60 THEN "sell"
    ELSE "strong_sell"

\* the result is <<score, signal>>
_calculate_signal(current_price, ind) ==
    LET score == Clamp(MaScore(current_price, ind) + MacdScore(ind)
                       + RsiScore(ind) + KdjScore(ind))
    IN  <<score, SignalOf(score)>>

\* lines 274-305: the record filled from the series and the three tuples
Filled(closes, highs, lows, macd, boll, kdj) ==
    [DefaultIndicators EXCEPT
        !.ma5 = _sma(closes, 5),
        !.ma10 = _sma(closes, 10),
        !.ma20 = _sma(closes, 20),
        !.ma60 = _sma(closes, 60),
        !.ema12 = _ema(closes, 12),
        !.ema26 = _ema(closes, 26),
        !.macd = macd[1],
        !.macd_signal = macd[2],
        !.macd_hist = macd[3],
        !.rsi_6 = calculate_rsi(closes, 6),
        !.rsi_14 = calculate_rsi(closes, 14),
        !.boll_upper = boll[1],
        !.boll_middle = boll[2],
        !.boll_lower = boll[3],
        !.boll_width =
            IF boll[1] # None /\ ~BandIsZero(boll[1])
               /\ boll[3] # None /\ ~BandIsZero(boll[3])
            THEN BollWidth(boll[1], boll[2], boll[3])
            ELSE None,
        !.kdj_k = kdj[1],
        !.kdj_d = kdj[2],
        !.kdj_j = kdj[3],
        !.atr = calculate_atr(highs, lows, closes, ATR_PERIOD)]

\* lines 307-310: the score and the signal stored in the record
Signalled(ind, sig) == [ind EXCEPT !.trend_score = sig[1], !.signal = sig[2]]

Scored(current_price, ind) == Signalled(ind, _calculate_signal(current_price, ind))

calculate_all_indicators(h) ==
    IF TooShort(h) THEN DefaultIndicators
    ELSE LET closes == [k \in DOMAIN h |-> SafeGet(h[k].close, Zero)]
             highs == [k \in DOMAIN h |-> SafeGet(h[k].high, closes[k])]
             lows == [k \in DOMAIN h |-> SafeGet(h[k].low, closes[k])]
         IN  Scored(closes[Len(closes)],
                    Filled(closes, highs, lows,
                           calculate_macd(closes, MACD_FAST, MACD_SLOW, MACD_SIGNAL),
                           calculate_bollinger(closes, BOLL_PERIOD, BOLL_STD_DEV),
                           calculate_kdj(highs, lows, closes, KDJ_PERIOD)))

----
\* _calculate_max_drawdown (quant.py 476-499) on a list of whole numbers.

DrawdownStart(prices) ==
    [max_dd |-> Zero, max_dd_duration |-> 0, peak |-> prices[1], peak_idx |-> 0,
     current_duration |-> 0]

\* a drawdown equal to the maximum taken as a new maximum
DrawdownStepOrEqual(st, price, idx) ==
    IF price > st.peak
    THEN [st EXCEPT !.peak = price, !.peak_idx = idx, !.current_duration = 0]
    ELSE LET dd == IF st.peak > 0 THEN Rat((st.peak - price) * 100, st.peak)
                   ELSE Zero
             dur == idx - st.peak_idx
         IN  IF RLe(st.max_dd, dd)
             THEN [st EXCEPT !.current_duration = dur, !.max_dd = dd,
                             !.max_dd_duration = dur]
             ELSE [st EXCEPT !.current_duration = dur]

\* the drawdown of the current point kept, larger or not
DrawdownStepLatest(st, price, idx) ==
    IF price > st.peak
    THEN [st EXCEPT !.peak = price, !.peak_idx = idx, !.current_duration = 0]
    ELSE LET dd == IF st.peak > 0 THEN Rat((st.peak - price) * 100, st.peak)
                   ELSE Zero
             dur == idx - st.peak_idx
         IN  [st EXCEPT !.current_duration = dur, !.max_dd = dd,
                        !.max_dd_duration = dur]

\* the loop body at 0-based index idx
DrawdownStep(st, price, idx) ==
    IF price > st.peak
    THEN [st EXCEPT !.peak = price, !.peak_idx = idx, !.current_duration = 0]
    ELSE LET dd == IF st.peak > 0 THEN Rat((st.peak - price) * 100, st.peak)
                   ELSE Zero
             dur == idx - st.peak_idx
         IN  IF RLt(st.max_dd, dd)
             THEN [st EXCEPT !.current_duration = dur, !.max_dd = dd,
                             !.max_dd_duration = dur]
             ELSE [st EXCEPT !.current_duration = dur]

RECURSIVE DrawdownScan(_, _, _)
DrawdownScan(st, prices, idx) ==
    IF idx >= Len(prices) THEN st
    ELSE DrawdownScan(DrawdownStep(st, At(prices, idx), idx), prices, idx + 1)

\* the result is <<max_dd, max_dd_duration>>
_calculate_max_drawdown(prices) ==
    IF prices = <<>> THEN <<Zero, 0>>
    ELSE LET st == DrawdownScan(DrawdownStart(prices), prices, 0)
         IN  <<st.max_dd, st.max_dd_duration>>

----
\* calculate_performance (quant.py 389-474).

RISK_FREE_PERCENT == 2

\* daily_returns (397-402) of numeric closes, from 0-based index idx on
RECURSIVE DailyReturns(_, _)
DailyReturns(closes, idx) ==
    IF idx >= Len(closes) THEN <<>>
    ELSE (IF At(closes, idx - 1) # 0
          THEN <<Rat((At(closes, idx) - At(closes, idx - 1)) * 100,
                     At(closes, idx - 1))>>
          ELSE <<>>)
         \o DailyReturns(closes, idx + 1)

\* sorted(daily_returns)
RECURSIVE Insert(_, _)
Insert(x, s) ==
    IF s = <<>> THEN <<x>>
    ELSE IF RLe(x, s[1]) THEN <<x>> \o s
    ELSE <<s[1]>> \o Insert(x, Tail(s))

RECURSIVE Sorted(_)
Sorted(s) == IF s = <<>> THEN <<>> ELSE Insert(s[1], Sorted(Tail(s)))

\* a day without a change counted among the falling ones
IsNegativeOrZero(r) == r[1] <= 0

IsNegative(r) == r[1] < 0
IsPositive(r) == r[1] > 0

\* the percentage taken as a factor
VarIndexUnscaled(n, percent) == n * percent

\* int(len(sorted_returns) * 0.05), int(len(sorted_returns) * 0.01)
VarIndex(n, percent) == (n * percent) \div 100

\* (daily_mean - risk_free_daily * 100) / std * sqrt(252), 0 when std is 0
RiskAdjusted(daily_mean, var) ==
    IF IsZero(var) THEN SurdZero
    ELSE Surd(RSub(daily_mean, Rat(RISK_FREE_PERCENT, TRADING_DAYS)),
              RDiv(FromInt(TRADING_DAYS), var))

\* where a non-numeric close makes the loop of lines 399-402 raise
ReturnsLoopFails(raw) ==
    \E k \in 1..(Len(raw) - 1) :
        \/ ~IsNum(raw[k])
        \/ raw[k].v # 0 /\ ~IsNum(raw[k + 1])

\* lines 407-474, for closes the loop of 399-402 accepted: numeric, except
\* possibly the last one (after a close of 0)
Metrics(raw) ==
    LET closes == Vals(raw)
        last_ok == IsNum(raw[Len(raw)])
        daily_returns == DailyReturns(closes, 1)
        n == Len(daily_returns)
        total_return == IF closes[1] # 0
                        THEN Rat((closes[Len(closes)] - closes[1]) * 100, closes[1])
                        ELSE Zero
        days == Len(raw)
        annual_return == IF days > 0 THEN RMul(total_return, Rat(TRADING_DAYS, days))
                         ELSE Zero
        daily_mean == RDiv(RSum(daily_returns), FromInt(n))
        var == Variance(daily_returns)
        dd == _calculate_max_drawdown(closes)
        sorted_returns == Sorted(daily_returns)
        var_95_idx == VarIndex(n, 5)
        var_99_idx == VarIndex(n, 1)
        var_95 == IF var_95_idx < n THEN At(sorted_returns, var_95_idx) ELSE Zero
        var_99 == IF var_99_idx < n THEN At(sorted_returns, var_99_idx) ELSE Zero
        downside_returns == SelectSeq(daily_returns, IsNegative)
        sortino == IF downside_returns # <<>>
                   THEN RiskAdjusted(daily_mean, Variance(downside_returns))
                   ELSE SurdZero
        calmar == IF ~IsZero(dd[1]) THEN RDiv(annual_return, RAbs(dd[1])) ELSE Zero
    IN  IF ~last_ok
        THEN Raised("TypeError")
        ELSE Value(
          [total_return |-> Round(total_return, 2),
           annual_return |-> Round(annual_return, 2),
           daily_return_mean |-> Round(daily_mean, 4),
           daily_return_std |-> Surd(FromInt(1), var),
           volatility |-> Surd(FromInt(1), RMul(var, FromInt(TRADING_DAYS))),
           max_drawdown |-> Round(dd[1], 2),
           max_drawdown_duration |-> dd[2],
           var_95 |-> Round(var_95, 2),
           var_99 |-> Round(var_99, 2),
           sharpe_ratio |-> RiskAdjusted(daily_mean, var),
           sortino_ratio |-> sortino,
           calmar_ratio |-> Round(calmar, 2),
           positive_days |-> Len(SelectSeq(daily_returns, IsPositive)),
           negative_days |-> Len(SelectSeq(daily_returns, IsNegative)),
           best_day |-> Round(RMax(daily_returns), 2),
           worst_day |-> Round(RMin(daily_returns), 2)])

\* the outcome of the call
calculate_performance(h) ==
    IF TooShort(h) THEN NoResult
    ELSE IF ~HasClose(h) THEN Raised("KeyError")
    ELSE IF ReturnsLoopFails(RawCloses(h)) THEN Raised("TypeError")
    ELSE IF DailyReturns(Vals(RawCloses(h)), 1) = <<>> THEN NoResult
    ELSE Metrics(RawCloses(h))

----
\* The two backtests (quant.py 505-705).  Both keep the same locals; Locals
\* is their value between two iterations of the scan, exc the exception an
\* iteration raised ("" for none).

Locals(pos, entry, tr, sig, e) ==
    [position |-> pos, entry_price |-> entry, trades |-> tr, signals |-> sig,
     exc |-> e]

\* profit = (closes[i] - entry_price) / entry_price * 100 (546, 651)
Profit(exit, entry) == Rat((exit - entry) * 100, entry)

\* A signal dict.  date is dates[i], the label of the i-th record, modelled by
\* its index; rsi is round(rsi, 2) in backtest_rsi and None (no such key) in
\* backtest_ma_cross; a buy has no "profit" key.
BuySignal(idx, price, rsi) ==
    [type |-> "buy", date |-> idx, price |-> price, rsi |-> rsi, profit |-> None]
SellSignal(idx, price, rsi, profit) ==
    [type |-> "sell", date |-> idx, price |-> price, rsi |-> rsi,
     profit |-> Round(profit, 2)]

\* Transition with the buy branch not testing position == 0
TransitionBuyWhileLong(l, closes, idx, golden, death, rsi) ==
    IF golden
    THEN Locals(1, At(closes, idx).v, l.trades,
                Append(l.signals, BuySignal(idx, At(closes, idx).v, rsi)), "")
    ELSE IF death /\ l.position = 1
    THEN IF l.entry_price = 0
         THEN [l EXCEPT !.exc = "ZeroDivisionError"]
         ELSE LET profit == Profit(At(closes, idx).v, l.entry_price)
              IN  Locals(0, l.entry_price, Append(l.trades, profit),
                         Append(l.signals,
                                SellSignal(idx, At(closes, idx).v, rsi, profit)), "")
    ELSE l

\* the branch of lines 530-556 / 634-662, given the two crossing tests
Transition(l, closes, idx, golden, death, rsi) ==
    IF golden /\ l.position = 0
    THEN Locals(1, At(closes, idx).v, l.trades,
                Append(l.signals, BuySignal(idx, At(closes, idx).v, rsi)), "")
    ELSE IF death /\ l.position = 1
    THEN IF l.entry_price = 0
         THEN [l EXCEPT !.exc = "ZeroDivisionError"]
         ELSE LET profit == Profit(At(closes, idx).v, l.entry_price)
              IN  Locals(0, l.entry_price, Append(l.trades, profit),
                         Append(l.signals,
                                SellSignal(idx, At(closes, idx).v, rsi, profit)), "")
    ELSE l

\* MaIteration with each crossing test joining its two comparisons by "or"
MaIterationOrCross(l, closes, idx, fast_period, slow_period) ==
    IF ~AllNum(Slice(closes, idx - slow_period, idx + 1))
    THEN [l EXCEPT !.exc = "TypeError"]
    ELSE LET c == Vals(closes)
             fast_ma == Rat(Sum(Slice(c, idx - fast_period + 1, idx + 1)), fast_period)
             slow_ma == Rat(Sum(Slice(c, idx - slow_period + 1, idx + 1)), slow_period)
             prev_fast == Rat(Sum(Slice(c, idx - fast_period, idx)), fast_period)
             prev_slow == Rat(Sum(Slice(c, idx - slow_period, idx)), slow_period)
         IN  Transition(l, closes, idx,
                        RLe(prev_fast, prev_slow) \/ RLt(slow_ma, fast_ma),
                        RLe(prev_slow, prev_fast) \/ RLt(fast_ma, slow_ma),
                        None)

\* one iteration of the loop of backtest_ma_cross (524-556) at index idx
MaIteration(l, closes, idx, fast_period, slow_period) ==
    IF ~AllNum(Slice(closes, idx - slow_period, idx + 1))
    THEN [l EXCEPT !.exc = "TypeError"]
    ELSE LET c == Vals(closes)
             fast_ma == Rat(Sum(Slice(c, idx - fast_period + 1, idx + 1)), fast_period)
             slow_ma == Rat(Sum(Slice(c, idx - slow_period + 1, idx + 1)), slow_period)
             prev_fast == Rat(Sum(Slice(c, idx - fast_period, idx)), fast_period)
             prev_slow == Rat(Sum(Slice(c, idx - slow_period, idx)), slow_period)
         IN  Transition(l, closes, idx,
                        RLe(prev_fast, prev_slow) /\ RLt(slow_ma, fast_ma),
                        RLe(prev_slow, prev_fast) /\ RLt(fast_ma, slow_ma),
                        None)

\* one iteration of the loop of backtest_rsi (627-662) at index idx
RsiIteration(l, closes, idx, period) ==
    IF ~AllNum(Slice(closes, 0, idx + 1))
    THEN [l EXCEPT !.exc = "TypeError"]
    ELSE LET c == Floats(Vals(closes))
             rsi == calculate_rsi(Slice(c, 0, idx + 1), period)
             prev_rsi == calculate_rsi(Slice(c, 0, idx), period)
         IN  IF rsi = None \/ prev_rsi = None THEN l
             ELSE Transition(l, closes, idx,
                      RLe(prev_rsi, FromInt(OVERSOLD)) /\ RLt(FromInt(OVERSOLD), rsi),
                      RLe(FromInt(OVERBOUGHT), prev_rsi) /\ RLt(rsi, FromInt(OVERBOUGHT)),
                      Round(rsi, 2))

\* The statistics both backtests compute after the scan (558-602, 664-705).
\* sharpe_ratio is kept exact, mean / std * sqrt(n) = mean * sqrt(n /
\* variance); its rounding to two places is not modelled.

\* a trade with profit 0 counted as a win
IsWinOrEven(t) == t[1] >= 0

IsWin(t) == t[1] > 0
IsLoss(t) == t[1] < 0

Sharpe(tr) ==
    LET var == Variance(tr)
        mean == RDiv(RSum(tr), FromInt(Len(tr)))
    IN  IF IsZero(var) THEN SurdZero
        ELSE Surd(mean, RDiv(FromInt(Len(tr)), var))

\* signals[:5] in place of signals[-5:]
KeptSignalsFirst(sig) == Slice(sig, 0, IF Len(sig) < KEEP_SIGNALS THEN Len(sig) ELSE KEEP_SIGNALS)

\* signals[-5:]
KeptSignals(sig) == LastN(sig, KEEP_SIGNALS)

\* BacktestResult counting opened positions (buys) as trades
BacktestResultCountsBuys(name, days, tr, sig) ==
    IF tr = <<>>
    THEN [strategy_name |-> name, total_return |-> Zero, annual_return |-> Zero,
          max_drawdown |-> Zero, sharpe_ratio |-> SurdZero, win_rate |-> Zero,
          profit_loss_ratio |-> Zero, trade_count |-> 0, signals |-> sig]
    ELSE LET total_return == RSum(tr)
             wins == SelectSeq(tr, IsWin)
             losses == SelectSeq(tr, IsLoss)
             win_rate == RMul(Rat(Len(wins), Len(tr)), FromInt(100))
             avg_win == IF wins # <<>> THEN RDiv(RSum(wins), FromInt(Len(wins)))
                        ELSE Zero
             avg_loss == IF losses # <<>>
                         THEN RAbs(RDiv(RSum(losses), FromInt(Len(losses))))
                         ELSE FromInt(1)
             profit_loss_ratio == IF RLt(Zero, avg_loss) THEN RDiv(avg_win, avg_loss)
                                  ELSE Zero
             annual_return == IF days > 0
                              THEN RMul(total_return, Rat(TRADING_DAYS, days))
                              ELSE Zero
             max_dd == RAbs(RMin(tr))
         IN  [strategy_name |-> name,
              total_return |-> Round(total_return, 2),
              annual_return |-> Round(annual_return, 2),
              max_drawdown |-> Round(max_dd, 2),
              sharpe_ratio |-> Sharpe(tr),
              win_rate |-> Round(win_rate, 2),
              profit_loss_ratio |-> Round(profit_loss_ratio, 2),
              trade_count |-> (Len(sig) + 1) \div 2,
              signals |-> KeptSignals(sig)]

BacktestResult(name, days, tr, sig) ==
    IF tr = <<>>
    THEN [strategy_name |-> name, total_return |-> Zero, annual_return |-> Zero,
          max_drawdown |-> Zero, sharpe_ratio |-> SurdZero, win_rate |-> Zero,
          profit_loss_ratio |-> Zero, trade_count |-> 0, signals |-> sig]
    ELSE LET total_return == RSum(tr)
             wins == SelectSeq(tr, IsWin)
             losses == SelectSeq(tr, IsLoss)
             win_rate == RMul(Rat(Len(wins), Len(tr)), FromInt(100))
             avg_win == IF wins # <<>> THEN RDiv(RSum(wins), FromInt(Len(wins)))
                        ELSE Zero
             avg_loss == IF losses # <<>>
                         THEN RAbs(RDiv(RSum(losses), FromInt(Len(losses))))
                         ELSE FromInt(1)
             profit_loss_ratio == IF RLt(Zero, avg_loss) THEN RDiv(avg_win, avg_loss)
                                  ELSE Zero
             annual_return == IF days > 0
                              THEN RMul(total_return, Rat(TRADING_DAYS, days))
                              ELSE Zero
             max_dd == RAbs(RMin(tr))
         IN  [strategy_name |-> name,
              total_return |-> Round(total_return, 2),
              annual_return |-> Round(annual_return, 2),
              max_drawdown |-> Round(max_dd, 2),
              sharpe_ratio |-> Sharpe(tr),
              win_rate |-> Round(win_rate, 2),
              profit_loss_ratio |-> Round(profit_loss_ratio, 2),
              trade_count |-> Len(tr),
              signals |-> KeptSignals(sig)]

MaName(fast_period, slow_period) == <<"MA", fast_period, slow_period>>
RsiName(period) == <<"RSI", period>>

----
\* Input series.

\* a repeating pattern of closes on a linear trend: closes[k] = pat[k mod |pat|] + slope * k
Periodic(pat, slope, n) ==
    [k \in 1..n |-> Point(pat[((k - 1) % Len(pat)) + 1] + slope * (k - 1))]

\* a run-length description <<<<value, count>>, ...>>; the last value continues
RECURSIVE RleAt(_, _)
RleAt(rle, k) ==
    IF Len(rle) = 1 \/ k < rle[1][2] THEN rle[1][1]
    ELSE RleAt(Tail(rle), k - rle[1][2])

Stepwise(rle, n) == [k \in 1..n |-> Point(RleAt(rle, k - 1))]

Patterns == UNION {[1..m -> 0..MaxClose] : m \in 1..MaxPat}
Slopes == {0, MaxClose + 1}

\* series for run_all_backtests, whose periods are fixed at 5/20, 10/30 and 14:
\* level series with one early drop and one late pulse
Scenarios ==
    { <<<<1, 1>>>>,
      <<<<12, 1>>, <<0, 15>>, <<1, 4>>, <<0, 1>>>>,
      <<<<8, 1>>, <<0, 25>>, <<1, 4>>, <<0, 1>>>>,
      <<<<5, 1>>, <<0, 15>>, <<1, 1>>, <<0, 1>>>>,
      <<<<5, 1>>, <<1, 15>>, <<3, 1>>, <<2, 1>>>>,
      <<<<12, 1>>, <<1, 15>>, <<2, 4>>, <<1, 1>>>> }

MaFrame(fast_period, slow_period) ==
    [name |-> "backtest_ma_cross", fast |-> fast_period, slow |-> slow_period,
     period |-> 0]
RsiFrame(period) ==
    [name |-> "backtest_rsi", fast |-> 0, slow |-> 0, period |-> period]
NoFrame == [name |-> "", fast |-> 0, slow |-> 0, period |-> 0]
RunAll == [name |-> "run_all_backtests", fast |-> 0, slow |-> 0, period |-> 0]

\* direct calls of a backtest with short periods, fast < slow
SmallCalls ==
    {MaFrame(p[1], p[2]) :
        p \in {q \in (1..MaxPeriod) \X (1..MaxPeriod) : q[1] < q[2]}}
    \cup {RsiFrame(p) : p \in 1..(MaxPeriod - 1)}

\* the least length a backtest accepts (513, 616)
MinLength(fr) ==
    (IF fr.name = "backtest_ma_cross" THEN fr.slow ELSE fr.period) + BACKTEST_MARGIN

SmallLengths(fr) == {0} \cup ((MinLength(fr) - 1)..(MinLength(fr) + MaxExtra))
AllLengths == 0..(MA2_SLOW + BACKTEST_MARGIN + MaxOver)

----
\* image_generator.py: the lazily created LocalImageGenerator shared by the
\* render_fund_image coroutines of one event loop.  A coroutine runs without
\* interruption from one suspension to the next; it is suspended where it
\* awaits the browser automation library: at the start of the driver (75),
\* at the launch of the browser (76) and while the page is drawn (143-169).
\* get_generator and render_template_file await nothing that suspends.
\* cleanup is not called while the coroutines run.

\* coroutines running together
MaxTasks == 3

Tasks == 1..MaxTasks

\* a reference to the n-th object of its kind; None is no reference
Ref(n) == <<n>>

\* LocalImageGenerator.__init__ (50-54)
LocalImageGenerator == [_initialized |-> FALSE, playwright |-> None, browser |-> None]

Idle == [pc |-> "idle", generator |-> None, page |-> None]

\* the module as imported (207), no coroutine started
ModuleLoaded ==
    /\ _generator = None
    /\ instances = <<>>
    /\ tasks = [t \in Tasks |-> Idle]
    /\ playwrights = 0
    /\ browsers = 0

\* get_generator (210-223): <<the instance returned, the objects afterwards>>
get_generator ==
    IF _generator = None
    THEN <<Ref(Len(instances) + 1), Append(instances, LocalImageGenerator)>>
    ELSE <<_generator, instances>>

\* render_fund_image (241-242), render_template_file (197-203) and
\* render_template (124-143) up to the first suspension: in initialize at
\* line 75 when the instance is not initialized, else at new_page (143)
RenderFundImage(t) ==
    /\ tasks[t].pc = "idle"
    /\ \E exists \in BOOLEAN :
        LET got == get_generator
            self == got[2][got[1][1]]
        IN  /\ _generator' = got[1]
            /\ instances' = got[2]
            /\ tasks' = [tasks EXCEPT ![t] =
                   IF ~exists
                   THEN [pc |-> "raised", generator |-> got[1], page |-> None]
                   ELSE IF ~self._initialized
                   THEN [pc |-> "starting", generator |-> got[1], page |-> None]
                   ELSE [pc |-> "rendering", generator |-> got[1],
                         page |-> self.browser]]
    /\ UNCHANGED <<playwrights, browsers, quantVars>>

\* initialize resumed at line 75: the driver has started, or failed to
\* (90-92); then the launch of line 76 is awaited
Started(t) ==
    /\ tasks[t].pc = "starting"
    /\ \E ok \in BOOLEAN :
        IF ok
        THEN /\ playwrights' = playwrights + 1
             /\ instances' = [instances EXCEPT
                                 ![tasks[t].generator[1]].playwright =
                                     Ref(playwrights + 1)]
             /\ tasks' = [tasks EXCEPT ![t].pc = "launching"]
        ELSE /\ tasks' = [tasks EXCEPT ![t].pc = "raised"]
             /\ UNCHANGED <<playwrights, instances>>
    /\ UNCHANGED <<_generator, browsers, quantVars>>

\* initialize resumed at line 76: the browser is launched, or the launch
\* failed (90-92); line 88, then render_template up to new_page (143)
Launched(t) ==
    /\ tasks[t].pc = "launching"
    /\ \E ok \in BOOLEAN :
        IF ok
        THEN /\ browsers' = browsers + 1
             /\ instances' = [instances EXCEPT
                                 ![tasks[t].generator[1]].browser = Ref(browsers + 1),
                                 ![tasks[t].generator[1]]._initialized = TRUE]
             /\ tasks' = [tasks EXCEPT ![t].pc = "rendering",
                                       ![t].page = Ref(browsers + 1)]
        ELSE /\ tasks' = [tasks EXCEPT ![t].pc = "raised"]
             /\ UNCHANGED <<browsers, instances>>
    /\ UNCHANGED <<_generator, playwrights, quantVars>>

\* render_template resumed after line 143: the page is drawn and saved and
\* the path returned (172), or an operation on the page failed (174-176)
Rendered(t) ==
    /\ tasks[t].pc = "rendering"
    /\ \E ok \in BOOLEAN :
        tasks' = [tasks EXCEPT ![t].pc = IF ok THEN "returned" ELSE "raised"]
    /\ UNCHANGED <<_generator, instances, playwrights, browsers, quantVars>>

----
\* State after the caller has built its arguments and before the method runs.

Start(c, h) ==
    /\ call = c
    /\ history_data = h
    /\ pc = "call"
    /\ frame = NoFrame
    /\ stage = 0
    /\ results = <<>>
    /\ i = 0
    /\ position = 0
    /\ entry_price = 0
    /\ trades = <<>>
    /\ signals = <<>>
    /\ ret = Pending
    /\ returned = <<>>
    /\ ModuleLoaded

InitSmall ==
    \E c \in SmallCalls, pat \in Patterns, slope \in Slopes :
        \E n \in SmallLengths(c) : Start(c, Periodic(pat, slope, n))

\* the level series, a rising series and a saw-tooth
AllSeries(n) ==
    {Stepwise(rle, n) : rle \in Scenarios}
    \cup {Periodic(<<1>>, 1, n), Periodic(<<0, 0, 1>>, 0, n)}

InitAll ==
    \E n \in AllLengths : \E h \in AllSeries(n) : Start(RunAll, h)

\* series without a period, on which a backtest with short periods completes
\* winning, losing and even trades
Irregular ==
    { <<2, 0, 2, 1, 2, 1, 1, 1, 1, 2, 0, 1, 2>>,
      <<2, 2, 2, 1, 2, 1, 2, 2, 2, 0, 2, 1, 1, 2>> }

InitIrregular ==
    \E c \in SmallCalls, s \in Irregular :
        Start(c, [k \in DOMAIN s |-> Point(s[k])])

Init == InitSmall \/ InitAll \/ InitIrregular

----
\* Actions.

\* what a backtest does with its outcome o: hand it to run_all_backtests
\* (712-723: appended when truthy, an exception propagates) or to the caller
Return(o) ==
    IF call.name = "run_all_backtests" /\ o.kind # "raised"
    THEN /\ results' = IF o.kind = "value" THEN Append(results, o.value) ELSE results
         /\ stage' = stage + 1
         /\ pc' = "run_all"
         /\ ret' = ret
    ELSE /\ ret' = o
         /\ pc' = "done"
         /\ UNCHANGED <<results, stage>>

\* a caller invokes backtest_ma_cross or backtest_rsi directly
CallBacktest ==
    /\ pc = "call"
    /\ call.name # "run_all_backtests"
    /\ frame' = call
    /\ pc' = "enter"
    /\ UNCHANGED <<renderVars, returned, call, history_data, stage, results, i, position, entry_price,
                   trades, signals, ret>>

\* run_all_backtests (707-725): results = []
RunAllStart ==
    /\ pc = "call"
    /\ call.name = "run_all_backtests"
    /\ results' = <<>>
    /\ stage' = 1
    /\ pc' = "run_all"
    /\ UNCHANGED <<renderVars, returned, call, history_data, frame, i, position, entry_price, trades,
                   signals, ret>>

Battery == <<MaFrame(MA1_FAST, MA1_SLOW), MaFrame(MA2_FAST, MA2_SLOW),
             RsiFrame(RSI_PERIOD)>>

\* run_all_backtests: the next of its three calls (712, 716, 721)
RunAllCall ==
    /\ pc = "run_all"
    /\ stage <= Len(Battery)
    /\ frame' = Battery[stage]
    /\ pc' = "enter"
    /\ UNCHANGED <<renderVars, returned, call, history_data, stage, results, i, position, entry_price,
                   trades, signals, ret>>

\* run_all_backtests: return results (725)
RunAllReturn ==
    /\ pc = "run_all"
    /\ stage > Len(Battery)
    /\ ret' = Value(results)
    /\ pc' = "done"
    /\ UNCHANGED <<renderVars, returned, call, history_data, frame, stage, results, i, position,
                   entry_price, trades, signals>>

\* the signals kept from one scan to the next, as an attribute of the
\* analyzer would be
EnterKeepingSignals(first) ==
    IF Len(history_data) < MinLength(frame)
    THEN Return(NoResult) /\ UNCHANGED <<i, position, entry_price, trades, signals>>
    ELSE IF ~HasClose(history_data)
    THEN Return(Raised("KeyError"))
         /\ UNCHANGED <<i, position, entry_price, trades, signals>>
    ELSE /\ i' = first
         /\ position' = 0
         /\ entry_price' = 0
         /\ trades' = <<>>
         /\ signals' = signals
         /\ pc' = "scan"
         /\ UNCHANGED <<results, stage, ret>>

\* the length test and the initialisation of the locals (513-522, 616-625)
Enter(first) ==
    IF Len(history_data) < MinLength(frame)
    THEN Return(NoResult) /\ UNCHANGED <<i, position, entry_price, trades, signals>>
    ELSE IF ~HasClose(history_data)
    THEN Return(Raised("KeyError"))
         /\ UNCHANGED <<i, position, entry_price, trades, signals>>
    ELSE /\ i' = first
         /\ position' = 0
         /\ entry_price' = 0
         /\ trades' = <<>>
         /\ signals' = <<>>
         /\ pc' = "scan"
         /\ UNCHANGED <<results, stage, ret>>

\* one iteration of a scan, given the locals it leaves
Iterate(l) ==
    IF l.exc # ""
    THEN Return(Raised(l.exc)) /\ UNCHANGED <<i, position, entry_price, trades, signals>>
    ELSE /\ i' = i + 1
         /\ position' = l.position
         /\ entry_price' = l.entry_price
         /\ trades' = l.trades
         /\ signals' = l.signals
         /\ UNCHANGED <<pc, results, stage, ret>>

CurrentLocals == Locals(position, entry_price, trades, signals, "")

MaEnter ==
    /\ pc = "enter"
    /\ frame.name = "backtest_ma_cross"
    /\ Enter(frame.slow)
    /\ UNCHANGED <<renderVars, returned, call, history_data, frame>>

MaIterate ==
    /\ pc = "scan"
    /\ frame.name = "backtest_ma_cross"
    /\ i < Len(history_data)
    /\ Iterate(MaIteration(CurrentLocals, RawCloses(history_data), i, frame.fast,
                           frame.slow))
    /\ UNCHANGED <<renderVars, returned, call, history_data, frame>>

MaFinish ==
    /\ pc = "scan"
    /\ frame.name = "backtest_ma_cross"
    /\ i >= Len(history_data)
    /\ Return(Value(BacktestResult(MaName(frame.fast, frame.slow),
                                   Len(history_data), trades, signals)))
    /\ UNCHANGED <<renderVars, returned, call, history_data, frame, i, position, entry_price, trades,
                   signals>>

RsiEnter ==
    /\ pc = "enter"
    /\ frame.name = "backtest_rsi"
    /\ Enter(frame.period + 1)
    /\ UNCHANGED <<renderVars, returned, call, history_data, frame>>

RsiIterate ==
    /\ pc = "scan"
    /\ frame.name = "backtest_rsi"
    /\ i < Len(history_data)
    /\ Iterate(RsiIteration(CurrentLocals, RawCloses(history_data), i, frame.period))
    /\ UNCHANGED <<renderVars, returned, call, history_data, frame>>

RsiFinish ==
    /\ pc = "scan"
    /\ frame.name = "backtest_rsi"
    /\ i >= Len(history_data)
    /\ Return(Value(BacktestResult(RsiName(frame.period), Len(history_data),
                                   trades, signals)))
    /\ UNCHANGED <<renderVars, returned, call, history_data, frame, i, position, entry_price, trades,
                   signals>>

Next ==
    \/ CallBacktest
    \/ RunAllStart
    \/ RunAllCall
    \/ RunAllReturn
    \/ MaEnter
    \/ MaIterate
    \/ MaFinish
    \/ RsiEnter
    \/ RsiIterate
    \/ RsiFinish

Spec == Init /\ [][Next]_vars

----
\* The indicator and the performance engine, one action each.

CalcIndicators ==
    /\ pc = "call"
    /\ call.name = "calculate_all_indicators"
    /\ ret' = Value(calculate_all_indicators(history_data))
    /\ pc' = "done"
    /\ UNCHANGED <<renderVars, returned, call, history_data, frame, stage, results, i, position,
                   entry_price, trades, signals>>

CalcPerformance ==
    /\ pc = "call"
    /\ call.name = "calculate_performance"
    /\ ret' = calculate_performance(history_data)
    /\ pc' = "done"
    /\ UNCHANGED <<renderVars, returned, call, history_data, frame, stage, results, i, position,
                   entry_price, trades, signals>>

Indicators ==
    [name |-> "calculate_all_indicators", fast |-> 0, slow |-> 0, period |-> 0]
Performance ==
    [name |-> "calculate_performance", fast |-> 0, slow |-> 0, period |-> 0]

\* records that carry high = close + 1 and low = close
Ranged(h) ==
    [k \in DOMAIN h |->
        [h[k] EXCEPT !.high = Num(h[k].close.v + 1), !.low = Num(h[k].close.v)]]

\* series of two levels: m closes of a, then b
TwoLevels(n) ==
    {Stepwise(<<<<a, m>>, <<b, 1>>>>, n) :
        a \in 0..MaxClose, b \in 0..MaxClose, m \in 1..(MIN_HISTORY + MaxMore)}

CalcSeries(n) ==
    LET plain == {Periodic(pat, 0, n) : pat \in Patterns} \cup TwoLevels(n)
    IN  plain \cup {Ranged(h) : h \in plain}

\* calculate_performance on long series: a level, then four closes, each
\* nothing, the level or twice the level. The lengths are those at which
\* the indices of lines 422-423, int(n * 0.05) and int(n * 0.01), become 1:
\* 20 and 100 daily returns.
VAR_95_PERCENT == 5
VAR_99_PERCENT == 1

VarLengths ==
    {100 \div p + more : p \in {VAR_95_PERCENT, VAR_99_PERCENT}, more \in 0..1}

VarTails == [1..4 -> {0, 1, 2}]

VarSeries(n) ==
    {Stepwise(<<<<a, n - 4>>, <<a * t[1], 1>>, <<a * t[2], 1>>, <<a * t[3], 1>>,
                <<a * t[4], 1>>>>, n) :
        a \in 1..MaxClose, t \in VarTails}

InitVar == \E n \in VarLengths : \E h \in VarSeries(n) : Start(Performance, h)

InitCalc ==
    \E c \in {Indicators, Performance}, n \in 0..(MIN_HISTORY + MaxMore) :
        \E h \in CalcSeries(n) : Start(c, h)

NextCalc == CalcIndicators \/ CalcPerformance

SpecCalc == InitCalc /\ [][NextCalc]_vars

\* the short series and the long ones
SpecVar == (InitCalc \/ InitVar) /\ [][NextCalc]_vars

----
\* The three engines on a series with one malformed field: a close, high or
\* low that is None (or any non-number), or a record without the close key.

Malformed(h, k, field, x) == [h EXCEPT ![k] = [h[k] EXCEPT ![field] = x]]

BadSpots(n) == {1, (n + 1) \div 2, n}

MalformedSeries(n) ==
    {Malformed(h, k, f[1], f[2]) :
        h \in {Stepwise(<<<<1, 1>>>>, n), Stepwise(<<<<0, 4>>, <<1, 1>>>>, n),
               Periodic(<<0, 0, 1>>, 0, n)},
        k \in BadSpots(n),
        f \in {<<"close", NoneVal>>, <<"close", Missing>>, <<"high", NoneVal>>,
               <<"low", NoneVal>>}}

\* the lengths at which run_all_backtests gains a strategy, and the one before
\* the first
ThresholdLengths ==
    {RSI_PERIOD + BACKTEST_MARGIN - 1, RSI_PERIOD + BACKTEST_MARGIN,
     MA1_SLOW + BACKTEST_MARGIN, MA2_SLOW + BACKTEST_MARGIN}

\* the indicator and performance engines on short series, run_all_backtests
\* on short series and at its thresholds
InitMalformed ==
    \/ \E c \in {Indicators, Performance}, n \in 1..(MIN_HISTORY + MaxMore) :
          \E h \in MalformedSeries(n) : Start(c, h)
    \/ \E n \in (1..MIN_HISTORY) \cup ThresholdLengths :
          \E h \in MalformedSeries(n) : Start(RunAll, h)

NextEngines ==
    \/ RunAllStart
    \/ RunAllCall
    \/ RunAllReturn
    \/ MaEnter
    \/ MaIterate
    \/ MaFinish
    \/ RsiEnter
    \/ RsiIterate
    \/ RsiFinish
    \/ CalcIndicators
    \/ CalcPerformance

SpecMalformed == InitMalformed /\ [][NextEngines]_vars

----
\* The indicator engine on series long enough for every indicator: a line
\* a + s * k of closes that ends in up to two other closes, with the high and
\* low keys absent or set around the close.

MaxSlope == 2

\* the lengths at which an indicator appears (KDJ at 9, RSI(14) and ATR at
\* 15, MA20 and the bands at 20, MACD at 35) with the lengths just below, and 30
IndicatorLengths ==
    {KDJ_PERIOD - 1, KDJ_PERIOD, RSI_PERIOD, RSI_PERIOD + 1, BOLL_PERIOD - 1,
     BOLL_PERIOD, MA2_SLOW}
    \cup ((MACD_SLOW + MACD_SIGNAL)..(MACD_SLOW + MACD_SIGNAL + MaxOver))

\* h with its last Len(tail) closes replaced
Tailed(h, tail) ==
    [k \in DOMAIN h |->
        IF k > Len(h) - Len(tail) THEN Point(tail[k - (Len(h) - Len(tail))])
        ELSE h[k]]

Tails == {<<>>, <<0>>, <<60>>, <<30, 40>>, <<90, 31>>}

\* records with the given high and low, each an offset from the close or, for
\* abs = TRUE, a fixed value
WithRange(h, high, low, abs) ==
    [k \in DOMAIN h |->
        [h[k] EXCEPT !.high = Num(IF abs[1] THEN high ELSE h[k].close.v + high),
                     !.low = Num(IF abs[2] THEN low ELSE h[k].close.v + low)]]

Ranges(h) ==
    {h, WithRange(h, 0, 0, <<FALSE, TRUE>>),
     WithRange(h, 200, 0, <<TRUE, FALSE>>),
     WithRange(h, -20, -40, <<FALSE, FALSE>>)}

Lines(n) ==
    {Periodic(<<a>>, sl, n) :
        a \in {0, 1, 100},
        sl \in (-MaxSlope)..MaxSlope}

LongSeries(n) ==
    UNION {Ranges(Tailed(h, tail)) :
              h \in {l \in Lines(n) : l[n].close.v >= 0}, tail \in Tails}

InitSignal == \E n \in IndicatorLengths : \E h \in LongSeries(n) : Start(Indicators, h)

NextSignal == CalcIndicators

SpecSignal == InitSignal /\ [][NextSignal]_vars

----
\* The helper functions called on their own: _sma, _ema and calculate_rsi on
\* every short list with a period, _calculate_max_drawdown on every short
\* list, and calculate_macd with its default periods on the long series. The
\* list argument is the closes of history_data.

\* longest short list
MaxLen == 4
\* the values of a short list are -1..MaxValue
MaxValue == 2
\* longest period of a helper called on a short list
MaxWindow == 3

Helper(name, period) ==
    [name |-> name, fast |-> 0, slow |-> 0, period |-> period]
Macd ==
    [name |-> "calculate_macd", fast |-> MACD_FAST, slow |-> MACD_SLOW,
     period |-> MACD_SIGNAL]

ShortLists ==
    UNION {[1..n -> {Point(c) : c \in (-1)..MaxValue}] : n \in 0..MaxLen}

MacdLengths == (MACD_SLOW - 1)..(MACD_SLOW + MACD_SIGNAL + MaxOver)

MacdSeries(n) ==
    {Tailed(h, tail) : h \in {l \in Lines(n) : l[n].close.v >= 0}, tail \in Tails}

\* the list argument, as whole numbers
PriceList == Vals(RawCloses(history_data))

HelperReturns(name, value) ==
    /\ pc = "call"
    /\ call.name = name
    /\ ret' = Value(value)
    /\ pc' = "done"
    /\ UNCHANGED <<renderVars, returned, call, history_data, frame, stage, results, i, position,
                   entry_price, trades, signals>>

CallSma == HelperReturns("_sma", _sma(Floats(PriceList), call.period))

CallEma == HelperReturns("_ema", _ema(Floats(PriceList), call.period))

CallRsi ==
    HelperReturns("calculate_rsi", calculate_rsi(Floats(PriceList), call.period))

CallMacd ==
    HelperReturns("calculate_macd",
                  calculate_macd(Floats(PriceList), call.fast, call.slow,
                                 call.period))

CallMaxDrawdown ==
    HelperReturns("_calculate_max_drawdown", _calculate_max_drawdown(PriceList))

InitHelpers ==
    \/ \E h \in ShortLists : \E period \in 1..MaxWindow :
          \E name \in {"_sma", "_ema", "calculate_rsi"} :
              Start(Helper(name, period), h)
    \/ \E h \in ShortLists : Start(Helper("_calculate_max_drawdown", 0), h)
    \/ \E n \in MacdLengths : \E h \in MacdSeries(n) : Start(Macd, h)

NextHelpers == CallSma \/ CallEma \/ CallRsi \/ CallMacd \/ CallMaxDrawdown

SpecHelpers == InitHelpers /\ [][NextHelpers]_vars

----
\* Several calls on one analyzer and one list: when a call has returned, the
\* caller invokes an engine again on the same list. QuantAnalyzer has no
\* attributes (__init__ is `pass`, 101-102), so all that a call leaves behind
\* is the values of its locals, which the next call finds in the variables.

\* calls made on one list
MaxCalls == 2

TwoCallLengths == {MA1_SLOW + BACKTEST_MARGIN, MA2_SLOW + BACKTEST_MARGIN}

\* a level series that ends in up to two other closes
TwoCallTails ==
    {<<>>} \cup {<<x>> : x \in 0..MaxClose}
    \cup {<<x, y>> : x \in 0..MaxClose, y \in 0..MaxClose}

TwoCallSeries(n) ==
    {Tailed(Periodic(<<a>>, 0, n), tail) : a \in 0..MaxClose, tail \in TwoCallTails}

InitTwoCalls ==
    \E c \in {Indicators, Performance, RunAll}, n \in TwoCallLengths :
        \E h \in TwoCallSeries(n) : Start(c, h)

CallAgain ==
    /\ pc = "done"
    /\ Len(returned) < MaxCalls - 1
    /\ returned' = Append(returned, [call |-> call, ret |-> ret])
    /\ call' \in {Indicators, Performance, RunAll}
    /\ pc' = "call"
    /\ ret' = Pending
    /\ UNCHANGED <<renderVars, history_data, frame, stage, results, i, position,
                   entry_price, trades, signals>>

NextTwoCalls == NextEngines \/ CallAgain

SpecTwoCalls == InitTwoCalls /\ [][NextTwoCalls]_vars

----
\* Concurrent render_fund_image calls in a freshly imported module; no
\* QuantAnalyzer method is running.

NoCall == [name |-> "", fast |-> 0, slow |-> 0, period |-> 0]

InitRender ==
    /\ ModuleLoaded
    /\ call = NoCall
    /\ history_data = <<>>
    /\ pc = "done"
    /\ frame = NoFrame
    /\ stage = 0
    /\ results = <<>>
    /\ i = 0
    /\ position = 0
    /\ entry_price = 0
    /\ trades = <<>>
    /\ signals = <<>>
    /\ ret = NoResult
    /\ returned = <<>>

NextRender ==
    \E t \in Tasks : RenderFundImage(t) \/ Started(t) \/ Launched(t) \/ Rendered(t)

SpecRender == InitRender /\ [][NextRender]_vars

----
\* Properties of the composite signal, checked under SpecSignal.

IndicatorsDone ==
    pc = "done" /\ call.name = "calculate_all_indicators" /\ ret.kind = "value"

\* C11: the trend_score that calculate_all_indicators returns is an integer
\* between -100 and 100, whatever the series.
C11_ScoreWithinHundred ==
    IndicatorsDone => ret.value.trend_score \in -100..100

\* a series on which three of the four components agree
C11_Witness ==
    /\ IndicatorsDone
    /\ Len(history_data) >= MACD_SLOW + MACD_SIGNAL
    /\ ret.value.trend_score \in {-80, 70}

\* C12: the signal follows from the trend_score alone: strong buy from 60,
\* buy from 30 to below 60, hold from -30 to below 30, sell from -60 to below
\* -30 and strong sell below -60.
C12_SignalFromScoreAlone ==
    IndicatorsDone =>
        LET s == ret.value.trend_score
            signal == ret.value.signal
        IN  /\ signal = "strong_buy" <=> s >= 60
            /\ signal = "buy" <=> (30 <= s /\ s < 60)
            /\ signal = "hold" <=> (-30 <= s /\ s < 30)
            /\ signal = "sell" <=> (-60 <= s /\ s < -30)
            /\ signal = "strong_sell" <=> s < -60

\* a score on the strong-buy threshold
C12_Witness ==
    /\ IndicatorsDone
    /\ ret.value.trend_score = 60
    /\ ret.value.signal = "strong_buy"

\* n records with close c and the high and low equal to the close (absent
\* high and low keys default to the close)
Flat(n, c) ==
    /\ Len(history_data) = n
    /\ \A k \in DOMAIN history_data :
          /\ history_data[k].close = Num(c)
          /\ history_data[k].high \in {Missing, Num(c)}
          /\ history_data[k].low \in {Missing, Num(c)}

\* the indicators of 30 closes of 100, apart from the score
FlatIndicators ==
    /\ ret.value.ma5 = FromInt(100)
    /\ ret.value.ma10 = FromInt(100)
    /\ ret.value.ma20 = FromInt(100)
    /\ ret.value.rsi_14 = FromInt(100)
    /\ ret.value.boll_width = SurdZero

\* C13: for 30 identical closes of 100, with high = low = close, the moving
\* averages ma5, ma10 and ma20 are 100, rsi_14 is 100, the Bollinger width is
\* 0, the trend_score is 0 and the signal is hold.
C13_FlatSeriesScoresZero ==
    (IndicatorsDone /\ Flat(MA2_SLOW, 100)) =>
        /\ FlatIndicators
        /\ ret.value.trend_score = 0
        /\ ret.value.signal = "hold"

\* what the code returns for that series: every indicator as stated, and the
\* RSI of 100 scored as overbought
C13_FlatSeriesScoresOverbought ==
    (IndicatorsDone /\ Flat(MA2_SLOW, 100)) =>
        /\ FlatIndicators
        /\ ret.value.trend_score = -25
        /\ ret.value.signal = "hold"

C13_Witness ==
    IndicatorsDone /\ Flat(MA2_SLOW, 100) /\ ret.value.trend_score = -25

\* the current price that calculate_all_indicators scores
LastClose == SafeGet(history_data[Len(history_data)].close, Zero)

\* C16: an indicator that is present with the value 0 counts as present in
\* the composite score: an rsi_14 that is present and below 30, 0 after
\* fourteen falling closes included, adds the 25 oversold points, and when
\* ma5, ma10 and ma20 are all present, 0 included, the moving-average
\* ordering is scored.
C16_ZeroCountsAsPresent ==
    IndicatorsDone =>
        LET ind == ret.value
        IN  /\ (ind.rsi_14 # None /\ RLt(ind.rsi_14, FromInt(OVERSOLD))) =>
                  ind.trend_score = Clamp(MaScore(LastClose, ind) + MacdScore(ind)
                                          + 25 + KdjScore(ind))
            /\ (ind.ma5 # None /\ ind.ma10 # None /\ ind.ma20 # None) =>
                  ind.trend_score = Clamp(MaOrdering(LastClose, ind) + MacdScore(ind)
                                          + RsiScore(ind) + KdjScore(ind))

\* the contributions of the four indicator families to the score of the
\* returned indicators
Contributions ==
    <<MaScore(LastClose, ret.value), MacdScore(ret.value), RsiScore(ret.value),
      KdjScore(ret.value)>>

\* C26: in _calculate_signal the contributions of the moving-average
\* ordering (a multiple of 10 from -30 to 30), the MACD (from -25 to 25), the
\* RSI (-25, -10, 0, 10 or 25) and the KDJ (-20, -10, 0, 10 or 20) add up to
\* a sum from -100 to 100, so that clamping the sum never changes it.
C26_ClampNeverActs ==
    IndicatorsDone =>
        /\ Contributions[1] \in {-30, -20, -10, 0, 10, 20, 30}
        /\ Contributions[2] \in -25..25
        /\ Contributions[3] \in {-25, -10, 0, 10, 25}
        /\ Contributions[4] \in {-20, -10, 0, 10, 20}
        /\ Sum(Contributions) \in -100..100
        /\ ret.value.trend_score = Sum(Contributions)

\* every family contributes, the averages with their full 30 points
C26_Witness ==
    /\ IndicatorsDone
    /\ Contributions[1] \in {-30, 30}
    /\ \A k \in 1..4 : Contributions[k] # 0

\* C27: calculate_all_indicators scores only the indicator families that
\* have enough history: below 9 points the trend_score is 0; below 15 points
\* only the KDJ contributes, so the score is at most 20 either way and the
\* signal is hold; below 20 points ma20 is absent, the moving-average
\* ordering contributes nothing and the signal is neither strong buy nor
\* strong sell.
C27_ScoreNeedsHistory ==
    IndicatorsDone =>
        LET n == Len(history_data)
            score == ret.value.trend_score
        IN  /\ n < KDJ_PERIOD => score = 0
            /\ n < RSI_PERIOD + 1 =>
                  /\ score = Contributions[4]
                  /\ score \in -20..20
                  /\ ret.value.signal = "hold"
            /\ n < BOLL_PERIOD =>
                  /\ ret.value.ma20 = None
                  /\ Contributions[1] = 0
                  /\ ret.value.signal \notin {"strong_buy", "strong_sell"}

\* nineteen points with a signal other than hold
C27_Witness ==
    /\ IndicatorsDone
    /\ Len(history_data) = BOLL_PERIOD - 1
    /\ ret.value.signal # "hold"

\* the high and the low of record k, the close when the key is missing
HighOf(k) ==
    SafeGet(history_data[k].high, SafeGet(history_data[k].close, Zero))
LowOf(k) ==
    SafeGet(history_data[k].low, SafeGet(history_data[k].close, Zero))

\* every record has low <= close <= high
Enclosed ==
    \A k \in DOMAIN history_data :
        LET close == SafeGet(history_data[k].close, Zero)
        IN  RLe(LowOf(k), close) /\ RLe(close, HighOf(k))

\* the highest high is the lowest low over the last nine points
FlatWindow ==
    LET n == Len(history_data)
        window == (n - KDJ_PERIOD + 1)..n
    IN  \A k \in window, m \in window : HighOf(k) = LowOf(m)

KdjDone == IndicatorsDone /\ ret.value.kdj_k # None

----
\* Properties of the helper functions, checked under SpecHelpers.

HelperDone(name) == pc = "done" /\ call.name = name /\ ret.kind = "value"

\* C14: with the periods 12, 26 and 9, calculate_macd returns a MACD line for
\* every series of at least 26 points; for 26 to 34 points the MACD line is
\* present and the signal line and the histogram are absent.
C14_MacdLineFromSlowPoints ==
    (HelperDone("calculate_macd") /\ Len(history_data) >= MACD_SLOW) =>
        /\ ret.value[1] # None
        /\ Len(history_data) < MACD_SLOW + MACD_SIGNAL =>
              (ret.value[2] = None /\ ret.value[3] = None)

\* C15: for every series of at least 35 points calculate_macd returns the
\* MACD line, the signal line and the histogram, also when an average, the
\* MACD line or the signal line is exactly 0 (a constant or an all-zero
\* series), and the histogram is the MACD line minus the signal line.
C15_FullMacdFromThirtyFivePoints ==
    (HelperDone("calculate_macd")
     /\ Len(history_data) >= MACD_SLOW + MACD_SIGNAL) =>
        /\ ret.value[1] # None
        /\ ret.value[2] # None
        /\ ret.value[3] # None
        /\ ret.value[3] = RSub(ret.value[1], ret.value[2])

Mean(s) == RDiv(RSum(s), FromInt(Len(s)))

\* C17: for a period p >= 1, _sma and _ema are absent when the list has fewer
\* than p points; with exactly p points both are the mean of all of them;
\* with more, _sma is the mean of the last p points.
C17_AveragesOfShortLists ==
    (HelperDone("_sma") \/ HelperDone("_ema")) =>
        LET data == Floats(PriceList)
            n == Len(data)
            p == call.period
        IN  /\ n < p => ret.value = None
            /\ n = p => ret.value = Mean(data)
            /\ (n > p /\ call.name = "_sma") =>
                  ret.value = Mean(SubSeq(data, n - p + 1, n))

\* a simple average of a list longer than the period that is not the mean of
\* the whole list
C17_Witness ==
    /\ HelperDone("_sma")
    /\ Len(PriceList) > call.period
    /\ ret.value # Mean(Floats(PriceList))

\* the last period changes of the list argument
LastDeltas ==
    {PriceList[k + 1] - PriceList[k] :
        k \in (Len(PriceList) - call.period)..(Len(PriceList) - 1)}

\* C18: calculate_rsi is absent exactly when the list has fewer than
\* period + 1 points; otherwise it is between 0 and 100, it is 100 when none
\* of the last period changes is negative and 0 when all of them are.
C18_RsiRange ==
    HelperDone("calculate_rsi") =>
        /\ ret.value = None <=> Len(PriceList) < call.period + 1
        /\ ret.value # None =>
              /\ RLe(Zero, ret.value) /\ RLe(ret.value, FromInt(100))
              /\ (\A d \in LastDeltas : d >= 0) => ret.value = FromInt(100)
              /\ (\A d \in LastDeltas : d < 0) => ret.value = Zero

\* an RSI strictly between 0 and 100 whose window is the end of a longer list
C18_Witness ==
    /\ HelperDone("calculate_rsi")
    /\ Len(PriceList) > call.period + 1
    /\ ret.value # None
    /\ RLt(Zero, ret.value) /\ RLt(ret.value, FromInt(100))

\* the locals of the scan after its first k iterations
DrawdownAfter(k) ==
    DrawdownScan(DrawdownStart(PriceList), SubSeq(PriceList, 1, k), 0)

NonDecreasing(s) == \A k \in 1..(Len(s) - 1) : s[k] <= s[k + 1]

\* C19: the drawdown that _calculate_max_drawdown returns is never negative;
\* the result is (0, 0) for the empty list and for every non-decreasing list;
\* during the scan max_dd is never negative and never decreases.
C19_DrawdownNeverNegative ==
    HelperDone("_calculate_max_drawdown") =>
        /\ RLe(Zero, ret.value[1])
        /\ NonDecreasing(PriceList) => ret.value = <<Zero, 0>>
        /\ \A k \in 1..Len(PriceList) :
              /\ RLe(Zero, DrawdownAfter(k).max_dd)
              /\ RLe(DrawdownAfter(k - 1).max_dd, DrawdownAfter(k).max_dd)
        /\ PriceList # <<>> =>
              ret.value[1] = DrawdownAfter(Len(PriceList)).max_dd

\* a fall followed by a smaller one
C19_Witness ==
    /\ HelperDone("_calculate_max_drawdown")
    /\ Len(PriceList) >= 3
    /\ RLt(Zero, ret.value[1])
    /\ ret.value[2] < Len(PriceList) - 1
    /\ ~NonDecreasing(SubSeq(PriceList, Len(PriceList) - 1, Len(PriceList)))

\* the largest price among the first k + 1 (the running peak at 0-based
\* index k) and the 0-based index at which it was first seen
PeakAt(k) ==
    CHOOSE m \in {PriceList[j] : j \in 1..(k + 1)} :
        \A j \in 1..(k + 1) : PriceList[j] <= m
PeakIndexAt(k) ==
    CHOOSE j \in 0..k :
        /\ At(PriceList, j) = PeakAt(k)
        /\ \A l \in 0..(j - 1) : At(PriceList, l) # PeakAt(k)

\* the drawdown of the price at 0-based index k from its running peak
DrawdownAt(k) ==
    IF PeakAt(k) > 0
    THEN Rat((PeakAt(k) - At(PriceList, k)) * 100, PeakAt(k))
    ELSE Zero

\* the 0-based indices at which the drawdown is the returned maximum
Troughs == {k \in 0..(Len(PriceList) - 1) : DrawdownAt(k) = ret.value[1]}

\* C21: the duration that _calculate_max_drawdown returns is the distance
\* between the first index at which the returned maximum drawdown was attained
\* and the index of the running peak at that point; a later new peak and a
\* later drawdown that is not strictly larger leave it as it is.
C21_DurationAtFirstTrough ==
    HelperDone("_calculate_max_drawdown") =>
        IF IsZero(ret.value[1]) THEN ret.value[2] = 0
        ELSE /\ Troughs # {}
             /\ \E t \in Troughs :
                  /\ \A k \in Troughs : t <= k
                  /\ ret.value[2] = t - PeakIndexAt(t)

\* the maximum drawdown is attained a second time, or a new peak follows it
C21_Witness ==
    /\ HelperDone("_calculate_max_drawdown")
    /\ ~IsZero(ret.value[1])
    /\ \E t \in Troughs :
          /\ \A k \in Troughs : t <= k
          /\ \/ \E k \in Troughs : k > t
             \/ PeakAt(Len(PriceList) - 1) > PeakAt(t)
          /\ ret.value[2] < Len(PriceList) - 1 - PeakIndexAt(t)

----
\* Properties of repeated calls, checked under SpecTwoCalls.

\* the outcome of the call that has just returned is that of every earlier
\* call of the same engine on the list
SameAsBefore ==
    pc = "done" => \A k \in DOMAIN returned :
                returned[k].call = call => returned[k].ret = ret

----
\* Properties of the backtests, checked under Spec.

Direct == call.name \in {"backtest_ma_cross", "backtest_rsi"}
Done == pc = "done"
CloseOf(k) == history_data[k].close.v

\* a backtest has returned a BacktestResult, and the locals of its scan are
\* still in place: to the caller of a direct call, or to run_all_backtests
Returned ==
    \/ Direct /\ Done /\ ret.kind = "value"
    \/ call.name = "run_all_backtests" /\ pc = "run_all" /\ results # <<>>
TheResult == IF Direct THEN ret.value ELSE results[Len(results)]

Sells(sig) == {k \in DOMAIN sig : sig[k].type = "sell"}
Buys(sig) == {k \in DOMAIN sig : sig[k].type = "buy"}

\* C1: on numeric, non-negative closes no call of backtest_ma_cross,
\* backtest_rsi or run_all_backtests ends by raising.
C1_NeverRaises == ret.kind # "raised"

\* C2: in calculate_all_indicators, calculate_performance and
\* run_all_backtests a record whose close is missing or None counts as a
\* close of 0, and the call ends with a result or with absence: it never
\* raises.  Stated for SpecMalformed, where one field of one record is
\* malformed.
Engines == {"calculate_all_indicators", "calculate_performance", "run_all_backtests"}

C2_MalformedCloseTolerated ==
    (Done /\ call.name \in Engines) => ret.kind \in {"value", "none"}

\* C3: calculate_all_indicators on a series of fewer than 5 points (the empty
\* one included) returns a record whose 20 optional fields are all None,
\* whose trend_score is 0 and whose signal is hold.
OptionalFields ==
    {"ma5", "ma10", "ma20", "ma60", "ema12", "ema26", "macd", "macd_signal",
     "macd_hist", "rsi_6", "rsi_14", "boll_upper", "boll_middle", "boll_lower",
     "boll_width", "kdj_k", "kdj_d", "kdj_j", "atr", "obv_trend"}

C3_AllAbsentBelowFive ==
    (call.name = "calculate_all_indicators" /\ Done /\ Len(history_data) < 5) =>
        /\ ret.kind = "value"
        /\ DOMAIN ret.value = OptionalFields \cup {"trend_score", "signal"}
        /\ \A f \in OptionalFields : ret.value[f] = None
        /\ ret.value.trend_score = 0
        /\ ret.value.signal = "hold"

C3_Witness ==
    /\ call.name = "calculate_all_indicators" /\ Done
    /\ Len(history_data) = 4
    /\ \A k \in 1..4 : CloseOf(k) > 0 /\ history_data[k].high.t = "num"
    /\ CloseOf(1) < CloseOf(4)
    /\ ret.kind = "value"

\* C4: calculate_performance returns None exactly when the series has fewer
\* than 5 points or no close but the last is non-zero (no daily return), a
\* malformed close counting as 0; in every other case it returns a record
\* with each of its 16 fields holding a number.
PerformanceFields ==
    {"total_return", "annual_return", "daily_return_mean", "daily_return_std",
     "volatility", "max_drawdown", "max_drawdown_duration", "var_95", "var_99",
     "sharpe_ratio", "sortino_ratio", "calmar_ratio", "positive_days",
     "negative_days", "best_day", "worst_day"}
CountFields == {"max_drawdown_duration", "positive_days", "negative_days"}

CloseOrZero(k) ==
    IF IsNum(history_data[k].close) THEN history_data[k].close.v ELSE 0
NoDailyReturn == \A k \in 1..(Len(history_data) - 1) : CloseOrZero(k) = 0

C4_AbsentExactlyWhenNoReturns ==
    (call.name = "calculate_performance" /\ Done) =>
        LET absent == Len(history_data) < 5 \/ NoDailyReturn
        IN  /\ absent => ret.kind = "none"
            /\ ~absent =>
                  /\ ret.kind = "value"
                  /\ DOMAIN ret.value = PerformanceFields
                  /\ \A f \in CountFields : ret.value[f] \in Nat
                  /\ \A f \in PerformanceFields \ CountFields :
                        Len(ret.value[f]) >= 2

\* C5: a backtest called directly on a series of at least its minimum length
\* returns a BacktestResult, and with zero completed trades every statistic
\* of the result is zero.
C5_ResultWhenLongEnough ==
    (Direct /\ Done /\ Len(history_data) >= MinLength(call)) =>
        /\ ret.kind = "value"
        /\ trades = <<>> =>
            /\ ret.value.total_return = Zero
            /\ ret.value.annual_return = Zero
            /\ ret.value.max_drawdown = Zero
            /\ ret.value.sharpe_ratio = SurdZero
            /\ ret.value.win_rate = Zero
            /\ ret.value.profit_loss_ratio = Zero
            /\ ret.value.trade_count = 0

\* C6: run_all_backtests returns, in the order MA 5/20, MA 10/30, RSI(14),
\* exactly the strategies whose length precondition holds.
ExpectedBattery(n) ==
    (IF n >= 30 THEN <<MaName(5, 20)>> ELSE <<>>)
    \o (IF n >= 40 THEN <<MaName(10, 30)>> ELSE <<>>)
    \o (IF n >= 24 THEN <<RsiName(14)>> ELSE <<>>)

C6_FixedBattery ==
    (call.name = "run_all_backtests" /\ Done) =>
        /\ ret.kind = "value"
        /\ [k \in DOMAIN ret.value |-> ret.value[k].strategy_name]
               = ExpectedBattery(Len(history_data))

\* C7: the position is flat or long, it is long exactly when the last signal
\* is a buy, the signals alternate buy, sell, buy, ... from a buy, and no two
\* signals carry the same index.
C7_OnePosition ==
    /\ position \in {0, 1}
    /\ position = Len(signals) % 2
    /\ \A k \in DOMAIN signals :
          signals[k].type = (IF k % 2 = 1 THEN "buy" ELSE "sell")
    /\ \A k \in 1..(Len(signals) - 1) : signals[k].date < signals[k + 1].date

C7_Witness == Len(signals) >= 4 /\ position = 0 /\ frame.name = "backtest_rsi"

\* C8: in a returned result trade_count is the number of sells of the scan,
\* the trade list has one entry per sell, total_return is the sum of the
\* profits of the buy/sell pairs alone, and buys outnumber sells by the open
\* position, 0 or 1.
PairProfit(sig, k) ==
    Rat((sig[k].price - sig[k - 1].price) * 100, sig[k - 1].price)

RECURSIVE PairProfits(_, _)
PairProfits(sig, k) ==
    IF k > Len(sig) THEN Zero
    ELSE RAdd(PairProfit(sig, k), PairProfits(sig, k + 2))

C8_OpenPositionNotClosed ==
    Returned =>
        /\ TheResult.trade_count = Cardinality(Sells(signals))
        /\ Len(trades) = Cardinality(Sells(signals))
        /\ Cardinality(Buys(signals)) - Cardinality(Sells(signals)) = position
        /\ position \in {0, 1}
        /\ TheResult.total_return = Round(PairProfits(signals, 2), 2)

C8_Witness ==
    Returned /\ position = 1 /\ TheResult.trade_count >= 2
    /\ TheResult.total_return # Zero

\* C9: on a strictly increasing series backtest_ma_cross records no sell,
\* opens at most one position and, given the minimum length, returns a
\* result with trade_count = 0.
StrictlyIncreasing ==
    \A k \in 1..(Len(history_data) - 1) : CloseOf(k) < CloseOf(k + 1)

C9_NoDeathCrossWhenRising ==
    (StrictlyIncreasing /\ frame.name = "backtest_ma_cross"
     /\ frame.fast < frame.slow) =>
        /\ Sells(signals) = {}
        /\ Cardinality(Buys(signals)) <= 1
        /\ trades = <<>>
        /\ (Direct /\ Done /\ Len(history_data) >= frame.slow + 10) =>
              (ret.kind = "value" /\ ret.value.trade_count = 0)
        /\ (Returned /\ ~Direct) => TheResult.trade_count = 0

C9_Witness ==
    /\ StrictlyIncreasing
    /\ Direct /\ Done
    /\ frame.name = "backtest_ma_cross"
    /\ Len(history_data) > frame.slow + 10
    /\ ret.kind = "value"
    /\ \E k \in 1..(Len(history_data) - 2) :
          CloseOf(k + 1) - CloseOf(k) # CloseOf(k + 2) - CloseOf(k + 1)

\* C10: the signals of a returned result are at most 5 and are, in order, the
\* last min(5, n) of the n signals the scan generated.
C10_LastFiveSignals ==
    Returned =>
        LET kept == TheResult.signals
            n == Len(signals)
        IN  /\ Len(kept) <= 5
            /\ Len(kept) = (IF n < 5 THEN n ELSE 5)
            /\ \A k \in DOMAIN kept : kept[k] = signals[n - Len(kept) + k]

C10_Witness == Returned /\ Len(signals) > 5 /\ TheResult.trade_count >= 3

\* the simple average of the period closes that end at 0-based index k
SmaAt(period, k) ==
    Rat(Sum([j \in 1..period |-> CloseOf(k - period + 1 + j)]), period)

\* a step of the scan appends a buy at the current index and opens a position
\* at its close
BuyRecorded ==
    /\ Len(signals') = Len(signals) + 1
    /\ SubSeq(signals', 1, Len(signals)) = signals
    /\ signals'[Len(signals')].type = "buy"
    /\ signals'[Len(signals')].date = i
    /\ signals'[Len(signals')].price = CloseOf(i + 1)
    /\ position' = 1
    /\ entry_price' = CloseOf(i + 1)
    /\ trades' = trades

\* a step of the scan appends a sell at the current index and the profit on
\* the price of the last buy, and closes the position
SellRecorded ==
    /\ Len(signals') = Len(signals) + 1
    /\ SubSeq(signals', 1, Len(signals)) = signals
    /\ signals'[Len(signals')].type = "sell"
    /\ signals'[Len(signals')].date = i
    /\ signals'[Len(signals')].price = CloseOf(i + 1)
    /\ position' = 0
    /\ entry_price # 0
    /\ trades' = Append(trades, Rat((CloseOf(i + 1) - entry_price) * 100,
                                    entry_price))

Scanning(name) ==
    pc = "scan" /\ frame.name = name /\ i < Len(history_data)

\* C22: backtest_ma_cross scans the indices slow..len-1 in order; it records
\* a buy at index i, at the price closes[i], exactly when the position is flat
\* and the fast average was at most the slow one at i-1 and is above it at i;
\* it records a sell at i exactly when the position is long and the fast
\* average was at least the slow one at i-1 and is below it at i, with the
\* profit (closes[i] - entry) / entry * 100 on the price of the last buy.
C22_MaCrossTransitions ==
    [][Scanning("backtest_ma_cross") =>
          LET fast_ma == SmaAt(frame.fast, i)
              slow_ma == SmaAt(frame.slow, i)
              prev_fast == SmaAt(frame.fast, i - 1)
              prev_slow == SmaAt(frame.slow, i - 1)
          IN  /\ i >= frame.slow
              /\ BuyRecorded <=>
                    (position = 0 /\ RLe(prev_fast, prev_slow)
                     /\ RLt(slow_ma, fast_ma))
              /\ SellRecorded <=>
                    (position = 1 /\ RLe(prev_slow, prev_fast)
                     /\ RLt(fast_ma, slow_ma))]_vars

\* the same, a sell on an entry price of 0 apart
C22_ExceptZeroEntry ==
    [][(Scanning("backtest_ma_cross") /\ ~(position = 1 /\ entry_price = 0)) =>
          LET fast_ma == SmaAt(frame.fast, i)
              slow_ma == SmaAt(frame.slow, i)
              prev_fast == SmaAt(frame.fast, i - 1)
              prev_slow == SmaAt(frame.slow, i - 1)
          IN  /\ i >= frame.slow
              /\ (pc' = "scan" => i' = i + 1)
              /\ BuyRecorded <=>
                    (position = 0 /\ RLe(prev_fast, prev_slow)
                     /\ RLt(slow_ma, fast_ma))
              /\ SellRecorded <=>
                    (position = 1 /\ RLe(prev_slow, prev_fast)
                     /\ RLt(fast_ma, slow_ma))]_vars

\* the RSI of the closes up to and including 0-based index k
RsiAt(period, k) ==
    calculate_rsi([j \in 1..(k + 1) |-> FromInt(CloseOf(j))], period)

\* C23: backtest_rsi scans the indices period+1..len-1; it records a buy at
\* index i exactly when the position is flat and the RSI of closes[0..i-1] is
\* at most 30 and the RSI of closes[0..i] is above 30; it records a sell
\* exactly when the position is long and the prior RSI is at least 70 and the
\* current one below 70; the RSI is absent at no scanned index.
C23_RsiTransitions ==
    [][Scanning("backtest_rsi") =>
          LET rsi == RsiAt(frame.period, i)
              prev_rsi == RsiAt(frame.period, i - 1)
          IN  /\ i >= frame.period + 1
              /\ rsi # None /\ prev_rsi # None
              /\ BuyRecorded <=>
                    (position = 0 /\ RLe(prev_rsi, FromInt(OVERSOLD))
                     /\ RLt(FromInt(OVERSOLD), rsi))
              /\ SellRecorded <=>
                    (position = 1 /\ RLe(FromInt(OVERBOUGHT), prev_rsi)
                     /\ RLt(rsi, FromInt(OVERBOUGHT)))]_vars

\* the same, a sell on an entry price of 0 apart
C23_ExceptZeroEntry ==
    [][(Scanning("backtest_rsi") /\ ~(position = 1 /\ entry_price = 0)) =>
          LET rsi == RsiAt(frame.period, i)
              prev_rsi == RsiAt(frame.period, i - 1)
          IN  /\ i >= frame.period + 1
              /\ rsi # None /\ prev_rsi # None
              /\ (pc' = "scan" => i' = i + 1)
              /\ BuyRecorded <=>
                    (position = 0 /\ RLe(prev_rsi, FromInt(OVERSOLD))
                     /\ RLt(FromInt(OVERSOLD), rsi))
              /\ SellRecorded <=>
                    (position = 1 /\ RLe(FromInt(OVERBOUGHT), prev_rsi)
                     /\ RLt(rsi, FromInt(OVERBOUGHT)))]_vars

\* the trades of the scan with a profit above 0, and those below 0
Winning == {k \in DOMAIN trades : RLt(Zero, trades[k])}
Losing == {k \in DOMAIN trades : RLt(trades[k], Zero)}

\* the mean of the trades with the indices ks, a non-empty set
RECURSIVE TradeSum(_)
TradeSum(ks) ==
    IF ks = {} THEN Zero
    ELSE LET k == CHOOSE x \in ks : TRUE
         IN  RAdd(trades[k], TradeSum(ks \ {k}))
TradeMean(ks) == RDiv(TradeSum(ks), FromInt(Cardinality(ks)))

\* C24: in the result of a backtest with at least one completed trade,
\* win_rate is the share of trades with a profit above 0, in percent, and
\* profit_loss_ratio is the mean winning profit over the absolute mean losing
\* profit, over 1 when no trade has a profit below 0, and 0 when no trade
\* wins; a trade with profit 0 is neither; no denominator is 0. Both are
\* reported rounded to two places.
C24_WinRateAndRatio ==
    (Returned /\ trades # <<>>) =>
        /\ TheResult.trade_count = Len(trades)
        /\ TheResult.win_rate =
              Round(Rat(Cardinality(Winning) * 100, Len(trades)), 2)
        /\ Losing # {} => ~IsZero(TradeMean(Losing))
        /\ TheResult.profit_loss_ratio =
              Round(IF Winning = {} THEN Zero
                    ELSE RDiv(TradeMean(Winning),
                              IF Losing = {} THEN FromInt(1)
                              ELSE RAbs(TradeMean(Losing))), 2)

\* a win, a loss and a trade with profit 0
C24_Witness ==
    /\ Returned
    /\ Winning # {}
    /\ Losing # {}
    /\ \E k \in DOMAIN trades : IsZero(trades[k])

----
\* Properties of the performance engine, checked under SpecCalc (C25) and
\* SpecVar (C29).

PerformanceDone == pc = "done" /\ call.name = "calculate_performance"

\* the daily returns, in percent, of the closes that follow a non-zero close
Returns == DailyReturns(PriceList, 1)
NegativeReturns == {k \in DOMAIN Returns : RLt(Returns[k], Zero)}

\* the largest drawdown of a price from its running peak, 0 while the peak
\* is 0
LargestDrawdown ==
    CHOOSE d \in {DrawdownAt(k) : k \in 0..(Len(PriceList) - 1)} :
        \A k \in 0..(Len(PriceList) - 1) : RLe(DrawdownAt(k), d)

\* C25: on numeric closes calculate_performance never divides by zero: the
\* sharpe_ratio is 0 when the standard deviation of the daily returns is 0,
\* the sortino_ratio is 0 when fewer than two daily returns are negative, the
\* calmar_ratio is 0 when the maximum drawdown is 0, the total_return is 0
\* when the first close is 0, and a price adds no drawdown while the running
\* peak is 0.
C25_ZeroDenominators ==
    PerformanceDone =>
        /\ ret.kind # "raised"
        /\ ret.kind = "value" =>
              /\ (\A j, k \in DOMAIN Returns : Returns[j] = Returns[k]) =>
                    ret.value.sharpe_ratio = SurdZero
              /\ Cardinality(NegativeReturns) < 2 =>
                    ret.value.sortino_ratio = SurdZero
              /\ IsZero(LargestDrawdown) => ret.value.calmar_ratio = Zero
              /\ PriceList[1] = 0 => ret.value.total_return = Zero
              /\ ret.value.max_drawdown = Round(LargestDrawdown, 2)

\* a series that starts at 0, with one falling day and a drawdown
C25_Witness ==
    /\ PerformanceDone
    /\ ret.kind = "value"
    /\ PriceList[1] = 0
    /\ Cardinality(NegativeReturns) = 1
    /\ ~IsZero(LargestDrawdown)
    /\ ret.value.sharpe_ratio # SurdZero

\* C29: in every PerformanceMetrics that calculate_performance returns,
\* worst_day <= var_99 <= var_95 <= best_day and positive_days +
\* negative_days is at most the number of points less one; the indices
\* int(n * 0.05) and int(n * 0.01) are indices of the n sorted daily
\* returns, so var_95 and var_99 are the returns at those indices and never
\* the 0 of an index out of range.
C29_ValueAtRiskOrdered ==
    (PerformanceDone /\ ret.kind = "value") =>
        LET m == ret.value
            n == Len(Returns)
            at_95 == VarIndex(n, VAR_95_PERCENT)
            at_99 == VarIndex(n, VAR_99_PERCENT)
        IN  /\ RLe(m.worst_day, m.var_99)
            /\ RLe(m.var_99, m.var_95)
            /\ RLe(m.var_95, m.best_day)
            /\ m.positive_days + m.negative_days <= Len(history_data) - 1
            /\ at_95 \in 0..(n - 1)
            /\ at_99 \in 0..(n - 1)
            /\ m.var_95 = Round(At(Sorted(Returns), at_95), 2)
            /\ m.var_99 = Round(At(Sorted(Returns), at_99), 2)

\* a hundred daily returns, the four values all different
C29_Witness ==
    /\ PerformanceDone
    /\ ret.kind = "value"
    /\ Len(Returns) = 100
    /\ RLt(ret.value.worst_day, ret.value.var_99)
    /\ RLt(ret.value.var_99, ret.value.var_95)
    /\ RLt(ret.value.var_95, ret.value.best_day)

----
\* Properties of the shared image generator, checked under SpecRender.

\* get_generator has returned one and the same instance to every coroutine
OneGenerator ==
    /\ Len(instances) <= 1
    /\ \A t \in Tasks : tasks[t].generator \in {None, _generator}

\* every browser launched is the browser of an instance
BrowsersReferenced ==
    \A b \in 1..browsers :
        \E g \in DOMAIN instances : instances[g].browser = Ref(b)

\* C30: however the render_fund_image coroutines that share the lazily
\* created LocalImageGenerator interleave, the browser is launched at most
\* once, no launched browser is left unreferenced, and get_generator returns
\* the same instance to all of them.
C30_BrowserStartedOnce ==
    /\ browsers <= 1
    /\ BrowsersReferenced
    /\ OneGenerator
====
